---- MODULE Spec2Model ----
(***************************************************************************)
(* Model of the multivariable polynomial calculator: the polynomial engine *)
(* (poly.c, poly.h, mono_array.c), the text reader (input_output.c,        *)
(* error_handler.c), the stack (stack.c) and the interpreter (calc.c).     *)
(*                                                                         *)
(* Integer widths.  poly_coeff_t is long (64 bits) and poly_exp_t is int   *)
(* (32 bits).  TLC's integers are 32 bits wide, so both widths are scaled  *)
(* down: LONG_BITS and INT_BITS, with LONG_BITS > INT_BITS as in the       *)
(* build.  Every arithmetic operation of the code on these types is        *)
(* reduced to its width (two's complement), which is what the x86-64       *)
(* build of the code does on overflow.                                     *)
(*                                                                         *)
(* Memory.  Values are immutable here: PolyDestroy, free and realloc have  *)
(* no counterpart, PolyClone rebuilds the value it copies.  A null array   *)
(* pointer is the empty sequence (MonoNewArray(0) returns NULL).           *)
(*                                                                         *)
(* Assertions.  A failed assert() ends the process.  A call that fails an  *)
(* assertion returns ABORTED, and every operation handed ABORTED returns   *)
(* ABORTED: the value stands for "the process died inside this call".      *)
(***************************************************************************)
EXTENDS Integers, Sequences, FiniteSets

(* ---------------------------------------------------------------------- *)
(* Widths and machine arithmetic                                           *)
(* ---------------------------------------------------------------------- *)

\* Width of long / poly_coeff_t in the model (64 in the build).
LONG_BITS == 6

\* Width of int / poly_exp_t in the model (32 in the build).
INT_BITS == 4

\* x reduced to a signed two's-complement integer of the given width.
Wrap(x, bits) ==
  LET m == 2 ^ bits
      r == x % m
  IN  IF r >= m \div 2 THEN r - m ELSE r

LONG_MAX == 2 ^ (LONG_BITS - 1) - 1
LONG_MIN == -(2 ^ (LONG_BITS - 1))
INT_MAX == 2 ^ (INT_BITS - 1) - 1
INT_MIN == -(2 ^ (INT_BITS - 1))

\* long arithmetic of the build: +, * and unary minus on poly_coeff_t.
CoeffAdd(a, b) == Wrap(a + b, LONG_BITS)
CoeffMul(a, b) == Wrap(a * b, LONG_BITS)

\* int arithmetic of the build: + on poly_exp_t.
ExpAdd(a, b) == Wrap(a + b, INT_BITS)

\* (int) of a long: the narrowing conversion keeps the low INT_BITS bits.
LongToInt(n) == Wrap(n, INT_BITS)

(* ---------------------------------------------------------------------- *)
(* poly.h: the value types                                                 *)
(* ---------------------------------------------------------------------- *)

\* A null Mono* (also what MonoNewArray(0) returns).
NULL == <<>>

\* NEG of poly.c: the factor PolyNeg multiplies a coefficient by.
NEG == -1

\* Poly: [coeff, arr].  coeff is the anonymous union {coeff, size}: the
\* coefficient when arr = NULL, the number of monomials otherwise.
PolyFromCoeff(c) == [coeff |-> c, arr |-> NULL]

PolyZero == PolyFromCoeff(0)

\* The outcome of a call in which an assertion failed (the process is gone).
\* Its array is not NULL, so it is neither a coefficient nor zero and no
\* caller drops it.
ABORTED ==
  [coeff |-> 0, arr |-> << [p |-> PolyZero, exp |-> 0] >>, aborted |-> TRUE]

IsAborted(p) == "aborted" \in DOMAIN p

PolyIsCoeff(p) == p.arr = NULL

PolyIsZero(p) == PolyIsCoeff(p) /\ p.coeff = 0

MonoGetExp(m) == m.exp

\* assert(arr != NULL && size != 0); an array holding the outcome of a
\* failed call never gets here.
PolyFromSizeAndArray(size, arr) ==
  IF arr = NULL \/ size = 0 THEN ABORTED
  ELSE IF \E i \in 1..Len(arr) : IsAborted(arr[i].p) THEN ABORTED
  ELSE [coeff |-> size, arr |-> arr]

\* assert(n == 0 || !PolyIsZero(p))
MonoFromPoly(p, n) ==
  IF n = 0 \/ ~PolyIsZero(p) THEN [p |-> p, exp |-> n]
  ELSE [p |-> ABORTED, exp |-> n]

RECURSIVE PolyClone(_)
MonoClone(m) == [p |-> PolyClone(m.p), exp |-> m.exp]

PolyClone(p) ==
  IF IsAborted(p) THEN ABORTED
  ELSE IF PolyIsCoeff(p) THEN PolyFromCoeff(p.coeff)
  ELSE PolyFromSizeAndArray(p.coeff, [i \in 1..p.coeff |-> MonoClone(p.arr[i])])

(* ---------------------------------------------------------------------- *)
(* mono_array.c                                                            *)
(* ---------------------------------------------------------------------- *)

\* The first `used` of the `reserved` monomials, read as a polynomial.
TrimAndInterpretMonoArr(array_to_resize, used, reserved) ==
  IF used = 0 THEN PolyZero
  ELSE IF used = 1 /\ PolyIsZero(array_to_resize[1].p) THEN PolyZero
  ELSE IF used = 1 /\ MonoGetExp(array_to_resize[1]) = 0
                   /\ PolyIsCoeff(array_to_resize[1].p)
    THEN PolyFromCoeff(array_to_resize[1].p.coeff)
  ELSE IF used = reserved THEN PolyFromSizeAndArray(reserved, array_to_resize)
  ELSE PolyFromSizeAndArray(used, SubSeq(array_to_resize, 1, used))

\* Comparator of qsort: the order of two monomials by exponent.
Comparator(a, b) == IF a.exp > b.exp THEN 1 ELSE IF a.exp < b.exp THEN -1 ELSE 0

\* m put into the sorted sequence s after every element that is not greater.
RECURSIVE SortedInsert(_, _)
SortedInsert(s, m) ==
  IF s = <<>> THEN <<m>>
  ELSE IF Comparator(s[Len(s)], m) <= 0 THEN Append(s, m)
  ELSE Append(SortedInsert(SubSeq(s, 1, Len(s) - 1), m), s[Len(s)])

\* qsort by Comparator.  Equal exponents keep their order (glibc's qsort is
\* a merge sort for arrays of this size).
RECURSIVE MonoSort(_, _)
MonoSort(array_to_sort, size) ==
  IF size = 0 THEN <<>>
  ELSE SortedInsert(MonoSort(array_to_sort, size - 1), array_to_sort[size])

(* ---------------------------------------------------------------------- *)
(* poly.c: addition                                                        *)
(* ---------------------------------------------------------------------- *)

PolyAddTwoCoeffs(p, q) == PolyFromCoeff(CoeffAdd(p.coeff, q.coeff))

RECURSIVE PolyAdd(_, _)

\* A faulty MonoAdd that keeps the left coefficient: addition built on it
\* is not commutative.
MonoAddKeepsLeft(m, n) == m

MonoAdd(m, n) == [p |-> PolyAdd(m.p, n.p), exp |-> m.exp]

\* p has a monomial of exponent 0 (its first); q is a non-zero coefficient.
PolyAddCoeffIfPhasConst(p, q) ==
  LET new_poly_for_x0 == PolyAdd(p.arr[1].p, q)
      rest == SubSeq(p.arr, 2, p.coeff)
      copies == [i \in 1..Len(rest) |-> MonoClone(rest[i])]
      result_array ==
        IF PolyIsZero(new_poly_for_x0) THEN copies
        ELSE <<MonoFromPoly(new_poly_for_x0, 0)>> \o copies
  IN  PolyFromSizeAndArray(Len(result_array), result_array)

\* p has no monomial of exponent 0; q is a non-zero coefficient.
PolyAddCoeffIfPDoesntHaveConst(p, q) ==
  LET result_array ==
        <<MonoFromPoly(q, 0)>> \o [i \in 1..p.coeff |-> MonoClone(p.arr[i])]
  IN  PolyFromSizeAndArray(Len(result_array), result_array)

\* Exactly one of p, q is a coefficient.
\* A faulty PolyAddCoeffToNonCoeff without the test for a zero constant:
\* adding zero then stores a zero coefficient.
PolyAddCoeffToNonCoeffAddsZero(p, q) ==
  LET pp == IF PolyIsCoeff(p) THEN q ELSE p
      qq == IF PolyIsCoeff(p) THEN p ELSE q
  IN  IF MonoGetExp(pp.arr[1]) = 0 THEN PolyAddCoeffIfPhasConst(pp, qq)
      ELSE PolyAddCoeffIfPDoesntHaveConst(pp, qq)

PolyAddCoeffToNonCoeff(p, q) ==
  LET pp == IF PolyIsCoeff(p) THEN q ELSE p
      qq == IF PolyIsCoeff(p) THEN p ELSE q
  IN  IF PolyIsZero(qq) THEN PolyClone(pp)
      ELSE IF MonoGetExp(pp.arr[1]) = 0 THEN PolyAddCoeffIfPhasConst(pp, qq)
      ELSE PolyAddCoeffIfPDoesntHaveConst(pp, qq)

\* A faulty CopyWhatsLeft that copies nothing: the monomials one operand
\* has past the end of the other are lost.
CopyWhatsLeftCopiesNothing(index_p, index_q, p, q, array_for_copy) ==
  array_for_copy

\* The monomials one of p, q still has when the other is used up.
CopyWhatsLeft(index_p, index_q, p, q, array_for_copy) ==
  IF index_p = p.coeff
    THEN array_for_copy \o
         [i \in 1..(q.coeff - index_q) |-> MonoClone(q.arr[index_q + i])]
  ELSE IF index_q = q.coeff
    THEN array_for_copy \o
         [i \in 1..(p.coeff - index_p) |-> MonoClone(p.arr[index_p + i])]
  ELSE array_for_copy

\* The while loop of PolyAddTwoNonCoeffs, from (index_p, index_q) with
\* new_array filled so far, followed by CopyWhatsLeft.  index_p and index_q
\* count the monomials already consumed.
RECURSIVE PolyAddMerge(_, _, _, _, _)
PolyAddMerge(p, q, index_p, index_q, new_array) ==
  IF index_p < p.coeff /\ index_q < q.coeff
  THEN LET mono_from_p == p.arr[index_p + 1]
           mono_from_q == q.arr[index_q + 1]
       IN  IF MonoGetExp(mono_from_p) = MonoGetExp(mono_from_q)
           THEN LET new_mono == MonoAdd(mono_from_p, mono_from_q)
                IN  PolyAddMerge(p, q, index_p + 1, index_q + 1,
                      IF ~PolyIsZero(new_mono.p) THEN Append(new_array, new_mono)
                      ELSE new_array)
           ELSE IF MonoGetExp(mono_from_p) > MonoGetExp(mono_from_q)
           THEN PolyAddMerge(p, q, index_p, index_q + 1,
                             Append(new_array, MonoClone(mono_from_q)))
           ELSE PolyAddMerge(p, q, index_p + 1, index_q,
                             Append(new_array, MonoClone(mono_from_p)))
  ELSE CopyWhatsLeft(index_p, index_q, p, q, new_array)

PolyAddTwoNonCoeffs(p, q) ==
  LET new_array == PolyAddMerge(p, q, 0, 0, <<>>)
  IN  TrimAndInterpretMonoArr(new_array, Len(new_array), p.coeff + q.coeff)

PolyAdd(p, q) ==
  IF IsAborted(p) \/ IsAborted(q) THEN ABORTED
  ELSE IF PolyIsCoeff(p) /\ PolyIsCoeff(q) THEN PolyAddTwoCoeffs(p, q)
  ELSE IF PolyIsCoeff(p) \/ PolyIsCoeff(q) THEN PolyAddCoeffToNonCoeff(p, q)
  ELSE PolyAddTwoNonCoeffs(p, q)

\* The for loop of PolyAddMonos over the sorted copy_array, from index i.
\* Indices are 1-based: new_index is the slot being filled.
RECURSIVE PolyAddMonosLoop(_, _, _, _)
PolyAddMonosLoop(copy_array, new_index, i, count) ==
  IF i > count THEN <<copy_array, new_index>>
  ELSE IF MonoGetExp(copy_array[new_index]) = MonoGetExp(copy_array[i])
  THEN PolyAddMonosLoop(
         [copy_array EXCEPT
            ![new_index] = MonoAdd(copy_array[new_index], copy_array[i])],
         new_index, i + 1, count)
  ELSE IF ~PolyIsZero(copy_array[new_index].p)
  THEN PolyAddMonosLoop(
         [copy_array EXCEPT ![new_index + 1] = MonoClone(copy_array[i])],
         new_index + 1, i + 1, count)
  ELSE PolyAddMonosLoop(
         [copy_array EXCEPT ![new_index] = MonoClone(copy_array[i])],
         new_index, i + 1, count)

PolyAddMonos(count, monos) ==
  IF count = 0 THEN PolyZero
  ELSE LET copy_array == MonoSort(monos, count)
           done == PolyAddMonosLoop(copy_array, 1, 2, count)
       IN  TrimAndInterpretMonoArr(SubSeq(done[1], 1, done[2]), done[2], done[2])

PolyOwnMonos(count, monos) ==
  IF monos = NULL THEN PolyZero ELSE PolyAddMonos(count, monos)

PolyCloneMonos(count, monos) ==
  IF monos = NULL THEN PolyZero
  ELSE PolyAddMonos(count, [i \in 1..count |-> MonoClone(monos[i])])

(* ---------------------------------------------------------------------- *)
(* poly.c: multiplication, negation, subtraction                           *)
(* ---------------------------------------------------------------------- *)

RECURSIVE PolyMul(_, _)

\* A faulty MonoMul that keeps the exponent of its left operand: the
\* product then depends on the order of the operands.
MonoMulKeepsLeftExp(m, n) == [p |-> PolyMul(m.p, n.p), exp |-> m.exp]

MonoMul(m, n) == [p |-> PolyMul(m.p, n.p), exp |-> ExpAdd(m.exp, n.exp)]

\* A faulty MonoMulCoeff that also raises the exponent: multiplying by one
\* then changes the polynomial.
MonoMulCoeffRaisesExp(m, coeff) ==
  [p |-> PolyMul(m.p, coeff), exp |-> ExpAdd(m.exp, 1)]

MonoMulCoeff(m, coeff) == [p |-> PolyMul(m.p, coeff), exp |-> m.exp]

\* Exactly one of p, q is a coefficient.
PolyMulCoeffAndNonCoeff(p, q) ==
  LET pp == IF PolyIsCoeff(p) THEN q ELSE p
      qq == IF PolyIsCoeff(p) THEN p ELSE q
  IN  IF PolyIsZero(qq) THEN PolyZero
      ELSE PolyAddMonos(pp.coeff,
                        [i \in 1..pp.coeff |-> MonoMulCoeff(pp.arr[i], qq)])

\* new_array of PolyMul: the products in the order of the two nested loops.
PolyMulProducts(p, q) ==
  [k \in 1..(p.coeff * q.coeff) |->
     MonoMul(p.arr[((k - 1) \div q.coeff) + 1], q.arr[((k - 1) % q.coeff) + 1])]

PolyMul(p, q) ==
  IF IsAborted(p) \/ IsAborted(q) THEN ABORTED
  ELSE IF PolyIsCoeff(p) /\ PolyIsCoeff(q)
    THEN PolyFromCoeff(CoeffMul(q.coeff, p.coeff))
  ELSE IF PolyIsCoeff(p) \/ PolyIsCoeff(q) THEN PolyMulCoeffAndNonCoeff(p, q)
  ELSE PolyAddMonos(p.coeff * q.coeff, PolyMulProducts(p, q))

RECURSIVE PolyNeg(_)

\* A faulty MonoNeg that leaves the coefficient as it is: a polynomial and
\* its negation then no longer sum to zero.
MonoNegKeepsCoeff(m) == MonoFromPoly(m.p, m.exp)

MonoNeg(m) == MonoFromPoly(PolyNeg(m.p), m.exp)

PolyNeg(p) ==
  IF IsAborted(p) THEN ABORTED
  ELSE IF PolyIsCoeff(p) THEN PolyFromCoeff(CoeffMul(NEG, p.coeff))
  ELSE PolyFromSizeAndArray(p.coeff, [i \in 1..p.coeff |-> MonoNeg(p.arr[i])])

PolySub(p, q) == PolyAdd(p, PolyNeg(q))

(* ---------------------------------------------------------------------- *)
(* poly.c: degrees, equality                                               *)
(* ---------------------------------------------------------------------- *)

\* The largest element of a non-empty set of integers.
SetMax(S) == CHOOSE x \in S : \A y \in S : y <= x

\* The for loops of PolyDeg and PolyDegBy: the maximum of the values and
\* of the start value -1 (SMALL_VALUE).
MaxFrom(values) == SetMax({-1} \cup {values[i] : i \in 1..Len(values)})

RECURSIVE PolyDegBy(_, _)
\* A faulty PolyDegBy that answers -1 for every constant: a variable
\* deeper than the polynomial nests then has degree -1.
PolyDegByConstantIsMinusOne(p, var_idx) ==
  IF PolyIsCoeff(p) THEN -1
  ELSE IF var_idx = 0 THEN MonoGetExp(p.arr[p.coeff])
  ELSE SetMax({-1} \cup {PolyDegBy(p.arr[i].p, var_idx - 1) : i \in 1..p.coeff})

PolyDegBy(p, var_idx) ==
  IF PolyIsZero(p) THEN -1
  ELSE IF PolyIsCoeff(p) THEN 0
  ELSE IF var_idx = 0 THEN MonoGetExp(p.arr[p.coeff])
  ELSE MaxFrom([i \in 1..p.coeff |-> PolyDegBy(p.arr[i].p, var_idx - 1)])

RECURSIVE PolyDeg(_)

MonoDeg(m) == ExpAdd(m.exp, PolyDeg(m.p))

PolyDeg(p) ==
  IF PolyIsZero(p) THEN -1
  ELSE IF PolyIsCoeff(p) THEN 0
  ELSE MaxFrom([i \in 1..p.coeff |-> MonoDeg(p.arr[i])])

RECURSIVE PolyIsEq(_, _)

\* A faulty MonoIsEq that does not compare the exponents.
MonoIsEqIgnoresExp(m, n) == PolyIsEq(m.p, n.p)

MonoIsEq(m, n) == m.exp = n.exp /\ PolyIsEq(m.p, n.p)

PolyIsEq(p, q) ==
  IF PolyIsCoeff(p) /\ PolyIsCoeff(q) THEN p.coeff = q.coeff
  ELSE IF PolyIsCoeff(p) \/ PolyIsCoeff(q) THEN FALSE
  ELSE IF p.coeff # q.coeff THEN FALSE
  ELSE \A i \in 1..p.coeff : MonoIsEq(p.arr[i], q.arr[i])

(* ---------------------------------------------------------------------- *)
(* poly.c: evaluation and composition                                      *)
(* ---------------------------------------------------------------------- *)

\* Fast exponentiation on poly_coeff_t; n >= 0.
RECURSIVE PowerOf(_, _)
PowerOf(x, n) ==
  IF n = 0 THEN 1
  ELSE IF n = 1 THEN x
  ELSE IF n % 2 = 1 THEN CoeffMul(x, PowerOf(CoeffMul(x, x), (n - 1) \div 2))
  ELSE PowerOf(CoeffMul(x, x), n \div 2)

\* PowerOf asserts n >= 0.
MonoAt(m, x) ==
  IF m.exp < 0 THEN ABORTED
  ELSE PolyMul(m.p, PolyFromCoeff(PowerOf(x, m.exp)))

\* The for loop of PolyAt from monomial i, result being the sum so far.
RECURSIVE PolyAtLoop(_, _, _, _)
PolyAtLoop(p, x, i, result) ==
  IF i > p.coeff THEN result
  ELSE PolyAtLoop(p, x, i + 1, PolyAdd(result, MonoAt(p.arr[i], x)))

PolyAt(p, x) ==
  IF PolyIsCoeff(p) THEN PolyClone(p) ELSE PolyAtLoop(p, x, 1, PolyZero)

\* Fast exponentiation of a polynomial; exp & 1 is the lowest bit of exp.
\* From a negative exp the recursion never reaches 0 or 1 ((exp - 1) / 2 and
\* exp / 2 round towards zero and stay negative): the call stack runs out.
RECURSIVE PolyPower(_, _)

\* A faulty variant: every positive power is the first.
PolyPowerIsLinear(p, exp) ==
  IF exp = 0 THEN PolyFromCoeff(1) ELSE PolyClone(p)

PolyPower(p, exp) ==
  IF exp < 0 THEN ABORTED
  ELSE IF exp = 0 THEN PolyFromCoeff(1)
  ELSE IF exp = 1 THEN PolyClone(p)
  ELSE IF exp % 2 = 1
    THEN PolyMul(p, PolyPower(PolyMul(p, p), (exp - 1) \div 2))
  ELSE PolyPower(PolyMul(p, p), exp \div 2)

RECURSIVE PolyComposeHelper(_, _, _, _)

\* A faulty variant: a variable past the end of q is replaced by 1.
MonoComposeHelperKeepsLaterVariables(m, k, var_id, q) ==
  IF var_id < k /\ m.exp # 0
  THEN PolyMul(PolyComposeHelper(m.p, k, var_id + 1, q),
               PolyPower(q[var_id + 1], m.exp))
  ELSE PolyComposeHelper(m.p, k, var_id + 1, q)

\* q is the sequence q[0..k-1] of the code: q[var_id] is q[var_id + 1] here.
MonoComposeHelper(m, k, var_id, q) ==
  LET coeff == PolyComposeHelper(m.p, k, var_id + 1, q)
  IN  IF IsAborted(coeff) THEN ABORTED
      ELSE IF m.exp = 0 THEN coeff
      ELSE IF var_id < k THEN PolyMul(coeff, PolyPower(q[var_id + 1], m.exp))
      ELSE PolyZero

\* The for loop of PolyComposeHelper from monomial i.
RECURSIVE PolyComposeLoop(_, _, _, _, _, _)
PolyComposeLoop(p, k, var_id, q, i, result) ==
  IF i > p.coeff THEN result
  ELSE PolyComposeLoop(p, k, var_id, q, i + 1,
         PolyAdd(result, MonoComposeHelper(p.arr[i], k, var_id, q)))

PolyComposeHelper(p, k, var_id, q) ==
  IF PolyIsCoeff(p) THEN PolyClone(p)
  ELSE PolyComposeLoop(p, k, var_id, q, 1, PolyZero)

PolyCompose(p, k, q) == PolyComposeHelper(p, k, 0, q)

(* ---------------------------------------------------------------------- *)
(* What a value denotes, and canonical form (spec.md, section 3)           *)
(* ---------------------------------------------------------------------- *)

\* The sum of a sequence of coefficients, in poly_coeff_t arithmetic.
RECURSIVE SumSeq(_)
SumSeq(s) == IF s = <<>> THEN 0 ELSE CoeffAdd(Head(s), SumSeq(Tail(s)))

\* The coefficient p has at x_0^vec[1] * x_1^vec[2] * ... (variables past
\* the end of vec have exponent 0), whatever the form p is stored in.
RECURSIVE CoeffAt(_, _)
CoeffAt(p, vec) ==
  IF PolyIsCoeff(p)
  THEN IF \A i \in 1..Len(vec) : vec[i] = 0 THEN p.coeff ELSE 0
  ELSE LET e == IF vec = <<>> THEN 0 ELSE Head(vec)
           rest == IF vec = <<>> THEN <<>> ELSE Tail(vec)
       IN  SumSeq([i \in 1..Len(p.arr) |->
                     IF p.arr[i].exp = e THEN CoeffAt(p.arr[i].p, rest) ELSE 0])

\* The same for the polynomial a list of monomials sums to.
ListCoeffAt(list, vec) ==
  SumSeq([i \in 1..Len(list) |->
            IF list[i].exp = Head(vec) THEN CoeffAt(list[i].p, Tail(vec)) ELSE 0])

\* Number of nested variables of p, and its largest exponent at any depth.
RECURSIVE Depth(_)
Depth(p) ==
  IF PolyIsCoeff(p) THEN 0
  ELSE 1 + SetMax({Depth(p.arr[i].p) : i \in 1..Len(p.arr)})

RECURSIVE TopExp(_)
TopExp(p) ==
  IF PolyIsCoeff(p) THEN 0
  ELSE SetMax({0} \cup {p.arr[i].exp : i \in 1..Len(p.arr)}
                  \cup {TopExp(p.arr[i].p) : i \in 1..Len(p.arr)})

ListDepth(list) == 1 + SetMax({0} \cup {Depth(list[i].p) : i \in 1..Len(list)})

ListTopExp(list) ==
  SetMax({0} \cup {list[i].exp : i \in 1..Len(list)}
             \cup {TopExp(list[i].p) : i \in 1..Len(list)})

\* The exponent vectors at which either of two lists can have a coefficient.
VecsOf(l1, l2) ==
  LET d == SetMax({ListDepth(l1), ListDepth(l2)})
      e == SetMax({ListTopExp(l1), ListTopExp(l2)})
  IN  [1..d -> 0..e]

\* Two lists of monomials sum to the same polynomial.
SameListDenotation(l1, l2) ==
  \A vec \in VecsOf(l1, l2) : ListCoeffAt(l1, vec) = ListCoeffAt(l2, vec)

\* The term list of p has strictly ascending exponents.
StrictlyAscending(p) ==
  \A i \in 1..(Len(p.arr) - 1) : p.arr[i].exp < p.arr[i + 1].exp

\* Canonical form: a coefficient, or a non-empty term list of strictly
\* ascending exponents in range whose coefficients are canonical and not
\* zero, and that is not a single term of exponent 0 with a coefficient
\* that is a constant.
RECURSIVE IsCanonical(_)
IsCanonical(p) ==
  IF IsAborted(p) THEN FALSE
  ELSE IF PolyIsCoeff(p) THEN p.coeff \in LONG_MIN..LONG_MAX
  ELSE /\ p.coeff = Len(p.arr)
       /\ \A i \in 1..Len(p.arr) :
            /\ p.arr[i].exp \in 0..INT_MAX
            /\ IsCanonical(p.arr[i].p)
            /\ ~PolyIsZero(p.arr[i].p)
       /\ StrictlyAscending(p)
       /\ ~(Len(p.arr) = 1 /\ p.arr[1].exp = 0 /\ PolyIsCoeff(p.arr[1].p))

(* ---------------------------------------------------------------------- *)
(* Text: a C string is the sequence of its characters before the           *)
(* terminating NUL; a char * into it is an offset from its start.          *)
(* ---------------------------------------------------------------------- *)

NEWLINE == "\n"
NULL_CHAR == "NUL"
SEPARATOR == ","
OPENING_BRACKET == "("
CLOSING_BRACKET == ")"
PLUS_SIGN == "+"
MINUS_SIGN == "-"
COMMENT_CHAR == "#"
NUMBER_BASE == 10

\* string[i]: the terminating NUL sits right after the last character.
CharAt(string, i) == IF i < Len(string) THEN string[i + 1] ELSE NULL_CHAR

DigitChars == <<"0", "1", "2", "3", "4", "5", "6", "7", "8", "9">>

isdigit(c) == \E d \in 1..NUMBER_BASE : DigitChars[d] = c

DigitValue(c) == (CHOOSE d \in 1..NUMBER_BASE : DigitChars[d] = c) - 1

isalpha(c) ==
  c \in {"A", "B", "C", "D", "E", "F", "G", "H", "I", "J", "K", "L", "M",
         "N", "O", "P", "Q", "R", "S", "T", "U", "V", "W", "X", "Y", "Z",
         "a", "b", "c", "d", "e", "f", "g", "h", "i", "j", "k", "l", "m",
         "n", "o", "p", "q", "r", "s", "t", "u", "v", "w", "x", "y", "z"}

isspace(c) == c \in {" ", "\t", "\n", "\f", "\r"}

\* The offset of the first character at or after i that is no digit.
RECURSIVE DigitsEnd(_, _)
DigitsEnd(string, i) ==
  IF isdigit(CharAt(string, i)) THEN DigitsEnd(string, i + 1) ELSE i

\* The value of the digits string[from..to-1], or limit + 1 when that
\* value is above limit.
RECURSIVE DigitsValue(_, _, _, _)
DigitsValue(string, from, to, limit) ==
  IF to <= from THEN 0
  ELSE LET high == DigitsValue(string, from, to - 1, limit)
           v == high * NUMBER_BASE + DigitValue(CharAt(string, to - 1))
       IN  IF high > limit \/ v > limit THEN limit + 1 ELSE v

\* strtol(string + i, &last, 10) where string[i] is a digit or '-', as
\* every caller checks: [val, last, erange], erange true when the call
\* sets errno to ERANGE.  Without a digit nothing is converted, last is
\* left at i and errno as it was.
strtol(string, i) ==
  LET negative == CharAt(string, i) = MINUS_SIGN
      from == IF negative THEN i + 1 ELSE i
      to == DigitsEnd(string, from)
      magnitude == DigitsValue(string, from, to, LONG_MAX + 1)
  IN  IF to = from THEN [val |-> 0, last |-> i, erange |-> FALSE]
      ELSE IF negative
      THEN IF magnitude > LONG_MAX + 1
           THEN [val |-> LONG_MIN, last |-> to, erange |-> TRUE]
           ELSE [val |-> -magnitude, last |-> to, erange |-> FALSE]
      ELSE IF magnitude > LONG_MAX
           THEN [val |-> LONG_MAX, last |-> to, erange |-> TRUE]
           ELSE [val |-> magnitude, last |-> to, erange |-> FALSE]

\* size_t and unsigned long long have the width of long.
ULONG_MAX == 2 ^ LONG_BITS - 1

\* strtoull(string + i, &last, 10) where string[i] is a digit.
strtoull(string, i) ==
  LET to == DigitsEnd(string, i)
      magnitude == DigitsValue(string, i, to, ULONG_MAX)
  IN  IF magnitude > ULONG_MAX
      THEN [val |-> ULONG_MAX, last |-> to, erange |-> TRUE]
      ELSE [val |-> magnitude, last |-> to, erange |-> FALSE]

\* printf("%ld") and printf("%d").
RECURSIVE NatToText(_)
NatToText(n) ==
  IF n < NUMBER_BASE THEN <<DigitChars[n + 1]>>
  ELSE Append(NatToText(n \div NUMBER_BASE), DigitChars[(n % NUMBER_BASE) + 1])

NumToText(n) == IF n < 0 THEN <<MINUS_SIGN>> \o NatToText(-n) ELSE NatToText(n)

RECURSIVE PolyPrint(_)
MonoPrint(m) ==
  <<OPENING_BRACKET>> \o PolyPrint(m.p) \o <<SEPARATOR>> \o NumToText(m.exp)
    \o <<CLOSING_BRACKET>>

RECURSIVE PolyPrintRest(_, _)
PolyPrintRest(p, i) ==
  IF i > p.coeff THEN <<>>
  ELSE <<PLUS_SIGN>> \o MonoPrint(p.arr[i]) \o PolyPrintRest(p, i + 1)

PolyPrint(p) ==
  IF PolyIsCoeff(p) THEN NumToText(p.coeff)
  ELSE MonoPrint(p.arr[1]) \o PolyPrintRest(p, 2)

(* ---------------------------------------------------------------------- *)
(* error_handler.c                                                         *)
(* ---------------------------------------------------------------------- *)

NO_ERROR_CODE == -1
WRONG_COMMAND_CODE == 0
DEG_BY_WRONG_VAR_CODE == 1
AT_WRONG_VAL_CODE == 2
STACK_UNDERFLOW_CODE == 3
WRONG_POLY_CODE == 4
COMPOSE_WRONG_PARAM_CODE == 6

COEFF_OR_AT_UPPER_BOUND == LONG_MAX
COEFF_OR_AT_LOWER_BOUND == -COEFF_OR_AT_UPPER_BOUND - 1
EXP_UPPER_BOUND == INT_MAX
EXP_LOWER_BOUND == 0
DEG_BY_UPPER_BOUND == ULONG_MAX
COMPOSE_UPPER_BOUND == ULONG_MAX

\* errno is what the strtol or strtoull just before the call left.
IsCoeffOrAtArgValid(n, erange) ==
  IF erange \/ n < COEFF_OR_AT_LOWER_BOUND \/ n > COEFF_OR_AT_UPPER_BOUND
  THEN FALSE ELSE TRUE

IsExpValid(n, erange) ==
  IF erange \/ n < EXP_LOWER_BOUND \/ n > EXP_UPPER_BOUND THEN FALSE ELSE TRUE

IsDegByValid(n, erange) == IF erange \/ n > DEG_BY_UPPER_BOUND THEN FALSE ELSE TRUE

IsComposeValid(n, erange) == IF erange \/ n > COMPOSE_UPPER_BOUND THEN FALSE ELSE TRUE

IsError(code) == code # NO_ERROR_CODE

(* ---------------------------------------------------------------------- *)
(* input_output.c: the parser.  A call returns what it built, where it     *)
(* left *last, and the handler's code.  eof is feof(stdin).                *)
(* ---------------------------------------------------------------------- *)

MonoDummy == [p |-> PolyZero, exp |-> 0]

\* *last before the parser has set it.
NULL_LAST == -1

MonoResult(m, last, code) == [m |-> m, last |-> last, code |-> code]

PolyResult(p, last, code) == [p |-> p, last |-> last, code |-> code]

DynamicMonoArrayAdd(monos, to_add) == Append(monos, to_add)

RECURSIVE MonoRead(_, _, _, _, _)
RECURSIVE PolyRead(_, _, _, _, _)
RECURSIVE PolyReadMonos(_, _, _, _, _, _)

MonoRead(line, string, last, code, eof) ==
  IF IsError(code) THEN MonoResult(MonoDummy, last, code)
  ELSE IF CharAt(line, string) # OPENING_BRACKET
  THEN MonoResult(MonoDummy, last, WRONG_POLY_CODE)
  ELSE
    LET coeff == PolyRead(line, string + 1, last, code, eof)
    IN  IF IsError(coeff.code) THEN MonoResult(MonoDummy, coeff.last, coeff.code)
        ELSE IF CharAt(line, coeff.last) # SEPARATOR
        THEN MonoResult(MonoDummy, coeff.last, WRONG_POLY_CODE)
        ELSE IF ~isdigit(CharAt(line, coeff.last + 1))
        THEN MonoResult(MonoDummy, coeff.last, WRONG_POLY_CODE)
        ELSE
          LET n == strtol(line, coeff.last + 1)
              exp == LongToInt(n.val)
          IN  IF ~IsExpValid(exp, n.erange)
              THEN MonoResult(MonoDummy, n.last, WRONG_POLY_CODE)
              ELSE IF CharAt(line, n.last) # CLOSING_BRACKET
              THEN MonoResult(MonoDummy, n.last, WRONG_POLY_CODE)
              ELSE IF PolyIsZero(coeff.p) /\ exp # 0
              THEN MonoResult(MonoDummy, n.last, code)
              ELSE MonoResult(MonoFromPoly(coeff.p, exp), n.last, code)

\* The do-while loop of PolyRead and what follows it.
PolyReadMonos(line, string, last, code, eof, monos) ==
  LET start == IF CharAt(line, string) = PLUS_SIGN THEN string + 1 ELSE string
      to_add == MonoRead(line, start, last, code, eof)
  IN  IF IsError(to_add.code) THEN PolyResult(PolyZero, to_add.last, to_add.code)
      ELSE
        LET next == to_add.last + 1
            added == IF ~(PolyIsZero(to_add.m.p) /\ to_add.m.exp = 0)
                     THEN DynamicMonoArrayAdd(monos, to_add.m)
                     ELSE monos
            c == CharAt(line, next)
        IN  IF c = PLUS_SIGN
            THEN PolyReadMonos(line, next, to_add.last, code, eof, added)
            ELSE PolyResult(
                   PolyAddMonos(Len(added), added), next,
                   IF \/ (c # SEPARATOR /\ c # NEWLINE /\ c # NULL_CHAR)
                      \/ (c = NULL_CHAR /\ ~eof)
                   THEN WRONG_POLY_CODE ELSE code)

PolyRead(line, string, last, code, eof) ==
  IF isdigit(CharAt(line, string)) \/ CharAt(line, string) = MINUS_SIGN
  THEN LET n == strtol(line, string)
       IN  IF ~IsCoeffOrAtArgValid(n.val, n.erange)
           THEN PolyResult(PolyZero, n.last, WRONG_POLY_CODE)
           ELSE PolyResult(PolyFromCoeff(n.val), n.last, code)
  ELSE IF CharAt(line, string) = OPENING_BRACKET
  THEN PolyReadMonos(line, string, last, code, eof, <<>>)
  ELSE PolyResult(PolyZero, last, WRONG_POLY_CODE)

(* ---------------------------------------------------------------------- *)
(* stack.c                                                                 *)
(* ---------------------------------------------------------------------- *)

SIZE_EXPAND_CONST == 2
SIZE_SHRINK_BOUND == 4

\* elements holds the size polynomials in use, the top one last.
StackInit == [size |-> 0, reserved |-> 0, elements |-> <<>>]

StackIsEmpty(s) == s.size = 0

\* A faulty variant: the array is allocated anew, its contents are gone.
StackResizeLosesElements(s, new_size) ==
  [s EXCEPT !.reserved = new_size, !.elements = <<>>]

\* realloc keeps the elements that fit the new size.
StackResize(s, new_size) ==
  [s EXCEPT !.reserved = new_size,
            !.elements = SubSeq(@, 1, IF Len(@) < new_size THEN Len(@)
                                      ELSE new_size)]

Push(s, poly_to_push) ==
  LET room == IF s.size = s.reserved
              THEN StackResize(s, s.reserved * SIZE_EXPAND_CONST + 1)
              ELSE s
  IN  [room EXCEPT !.elements = Append(@, poly_to_push), !.size = @ + 1]

\* Pop on a stack that is not empty: the stack left and the polynomial.
Pop(s) ==
  LET taken == [s EXCEPT !.size = @ - 1,
                         !.elements = SubSeq(@, 1, s.size - 1)]
  IN  [s |-> IF taken.size <= taken.reserved \div SIZE_SHRINK_BOUND
             THEN StackResize(taken, taken.size)
             ELSE taken,
       poly |-> s.elements[s.size]]

StackDoesHaveAtLeastTwoElements(s) == s.size >= 2

RECURSIVE Empty(_)
Empty(s) == IF s.size > 0 THEN Empty(Pop(s).s) ELSE s

StackSize(s) == s.size

(* ---------------------------------------------------------------------- *)
(* calc.c.  A handler returns the stack it leaves, the error it reports    *)
(* (NO_ERROR_CODE: none), what it prints to stdout, and how the process    *)
(* died in it: "no", "SIGABRT" (a failed assertion), "SIGSEGV" or "exit"   *)
(* (CHECK_PTR).                                                            *)
(* ---------------------------------------------------------------------- *)

ZERO_STRING == <<"Z", "E", "R", "O">>
IS_COEFF_STRING == <<"I", "S", "_", "C", "O", "E", "F", "F">>
IS_ZERO_STRING == <<"I", "S", "_", "Z", "E", "R", "O">>
CLONE_STRING == <<"C", "L", "O", "N", "E">>
ADD_STRING == <<"A", "D", "D">>
MUL_STRING == <<"M", "U", "L">>
NEG_STRING == <<"N", "E", "G">>
SUB_STRING == <<"S", "U", "B">>
IS_EQ_STRING == <<"I", "S", "_", "E", "Q">>
DEG_STRING == <<"D", "E", "G">>
PRINT_STRING == <<"P", "R", "I", "N", "T">>
POP_STRING == <<"P", "O", "P">>
DEG_BY_STRING == <<"D", "E", "G", "_", "B", "Y">>
DEG_BY_WITH_SPACE_STRING == DEG_BY_STRING \o <<" ">>
DEG_BY_LEN == 6
AT_STRING == <<"A", "T">>
AT_WITH_SPACE_STRING == AT_STRING \o <<" ">>
AT_LEN == 2
COMPOSE_STRING == <<"C", "O", "M", "P", "O", "S", "E">>
COMPOSE_WITH_SPACE_STRING == COMPOSE_STRING \o <<" ">>
COMPOSE_LEN == 7

InstrCmp(instr, to_cmp, eof) ==
  IF \E index \in 0..(Len(instr) - 1) :
       CharAt(instr, index) # CharAt(to_cmp, index)
  THEN FALSE
  ELSE IF CharAt(to_cmp, Len(instr)) = NULL_CHAR THEN eof
  ELSE IF /\ CharAt(to_cmp, Len(instr)) = NEWLINE
          /\ CharAt(to_cmp, Len(instr) + 1) = NULL_CHAR
  THEN TRUE
  ELSE FALSE

\* strncmp(s1, s2, n) == 0, s2 a command string of at least n characters.
strncmp0(s1, s2, n) == \A i \in 0..(n - 1) : CharAt(s1, i) = CharAt(s2, i)

PrintTrue == <<"1", NEWLINE>>
PrintFalse == <<"0", NEWLINE>>

Done(s, code, out) == [stack |-> s, code |-> code, out |-> out, died |-> "no"]

Died(s, how) == [stack |-> s, code |-> NO_ERROR_CODE, out |-> <<>>, died |-> how]

\* Push of what the engine computed: an assertion that failed in the
\* computation has killed the process before.
PushComputed(s, before, poly) ==
  IF IsAborted(poly) THEN Died(before, "SIGABRT")
  ELSE Done(Push(s, poly), NO_ERROR_CODE, <<>>)

\* A faulty variant: the error is not reported.
HandleErrorCodeReportsNothing(s, code) == Done(s, NO_ERROR_CODE, <<>>)

HandleErrorCode(s, code) == Done(s, code, <<>>)

CalcZero(s) == Push(s, PolyZero)
CalcIsCoeff(poly) == IF PolyIsCoeff(poly) THEN PrintTrue ELSE PrintFalse
CalcIsZero(poly) == IF PolyIsZero(poly) THEN PrintTrue ELSE PrintFalse
CalcClone(poly) == PolyClone(poly)
CalcAdd(first, second) == PolyAdd(first, second)
CalcMul(first, second) == PolyMul(first, second)
CalcNeg(poly) == PolyNeg(poly)
CalcSub(first, second) == PolySub(first, second)
CalcIsEq(first, second) == IF PolyIsEq(first, second) THEN PrintTrue ELSE PrintFalse
CalcDeg(poly) == NumToText(PolyDeg(poly)) \o <<NEWLINE>>
CalcDegBy(poly, var_idx) == NumToText(PolyDegBy(poly, var_idx)) \o <<NEWLINE>>
CalcAt(poly, x) == PolyAt(poly, x)
CalcPrint(poly) == PolyPrint(poly) \o <<NEWLINE>>

NullaryOperation(s, instruction, eof) ==
  IF InstrCmp(ZERO_STRING, instruction, eof)
  THEN Done(CalcZero(s), NO_ERROR_CODE, <<>>)
  ELSE Done(s, NO_ERROR_CODE, <<>>)

UnaryOperation(s, instruction, eof) ==
  IF StackIsEmpty(s) THEN HandleErrorCode(s, STACK_UNDERFLOW_CODE)
  ELSE
    LET popped == Pop(s)
        top == popped.poly
    IN  IF InstrCmp(IS_COEFF_STRING, instruction, eof)
        THEN Done(Push(popped.s, top), NO_ERROR_CODE, CalcIsCoeff(top))
        ELSE IF InstrCmp(IS_ZERO_STRING, instruction, eof)
        THEN Done(Push(popped.s, top), NO_ERROR_CODE, CalcIsZero(top))
        ELSE IF InstrCmp(CLONE_STRING, instruction, eof)
        THEN IF IsAborted(CalcClone(top)) THEN Died(s, "SIGABRT")
             ELSE Done(Push(Push(popped.s, CalcClone(top)), top),
                       NO_ERROR_CODE, <<>>)
        ELSE IF InstrCmp(NEG_STRING, instruction, eof)
        THEN PushComputed(popped.s, s, CalcNeg(top))
        ELSE IF InstrCmp(DEG_STRING, instruction, eof)
        THEN Done(Push(popped.s, top), NO_ERROR_CODE, CalcDeg(top))
        ELSE IF InstrCmp(PRINT_STRING, instruction, eof)
        THEN Done(Push(popped.s, top), NO_ERROR_CODE, CalcPrint(top))
        ELSE IF InstrCmp(POP_STRING, instruction, eof)
        THEN Done(Pop(Push(popped.s, top)).s, NO_ERROR_CODE, <<>>)
        ELSE Done(Push(popped.s, top), NO_ERROR_CODE, <<>>)

\* A faulty variant: IS_EQ pushes its operands back in the other order.
BinaryOperationSwapsOperands(s, instruction, eof) ==
  IF ~StackDoesHaveAtLeastTwoElements(s)
  THEN HandleErrorCode(s, STACK_UNDERFLOW_CODE)
  ELSE IF InstrCmp(ADD_STRING, instruction, eof)
  THEN PushComputed(Pop(Pop(s).s).s, s,
                    CalcAdd(Pop(s).poly, Pop(Pop(s).s).poly))
  ELSE IF InstrCmp(MUL_STRING, instruction, eof)
  THEN PushComputed(Pop(Pop(s).s).s, s,
                    CalcMul(Pop(s).poly, Pop(Pop(s).s).poly))
  ELSE IF InstrCmp(SUB_STRING, instruction, eof)
  THEN PushComputed(Pop(Pop(s).s).s, s,
                    CalcSub(Pop(s).poly, Pop(Pop(s).s).poly))
  ELSE IF InstrCmp(IS_EQ_STRING, instruction, eof)
  THEN Done(Push(Push(Pop(Pop(s).s).s, Pop(s).poly), Pop(Pop(s).s).poly),
            NO_ERROR_CODE, CalcIsEq(Pop(s).poly, Pop(Pop(s).s).poly))
  ELSE Done(Pop(Pop(s).s).s, NO_ERROR_CODE, <<>>)

BinaryOperation(s, instruction, eof) ==
  IF ~StackDoesHaveAtLeastTwoElements(s)
  THEN HandleErrorCode(s, STACK_UNDERFLOW_CODE)
  ELSE
    LET one == Pop(s)
        first == one.poly
        two == Pop(one.s)
        second == two.poly
    IN  IF InstrCmp(ADD_STRING, instruction, eof)
        THEN PushComputed(two.s, s, CalcAdd(first, second))
        ELSE IF InstrCmp(MUL_STRING, instruction, eof)
        THEN PushComputed(two.s, s, CalcMul(first, second))
        ELSE IF InstrCmp(SUB_STRING, instruction, eof)
        THEN PushComputed(two.s, s, CalcSub(first, second))
        ELSE IF InstrCmp(IS_EQ_STRING, instruction, eof)
        THEN Done(Push(Push(two.s, second), first), NO_ERROR_CODE,
                  CalcIsEq(first, second))
        ELSE Done(two.s, NO_ERROR_CODE, <<>>)

\* *last is not what may end a parameter: a newline, or the NUL at the
\* end of the input.
BadParamEnd(instruction, last, eof) ==
  /\ CharAt(instruction, last) # NEWLINE
  /\ ~(eof /\ CharAt(instruction, last) = NULL_CHAR)

\* The polynomials COMPOSE pops after the main one: arr[count - 1] first.
RECURSIVE PopMany(_, _, _)
PopMany(s, i, arr) ==
  IF i = 0 THEN [s |-> s, arr |-> arr]
  ELSE PopMany(Pop(s).s, i - 1, <<Pop(s).poly>> \o arr)

\* The branch of COMPOSE that composes.  On an empty stack the first Pop
\* reads elements[SIZE_MAX]: the process dies of it, or before it in
\* CHECK_PTR when malloc(count * sizeof(Poly)) failed.
ComposeOnStack(s, count) ==
  IF StackIsEmpty(s)
  THEN IF count = 0 THEN {Died(s, "SIGSEGV")}
       ELSE {Died(s, "SIGSEGV"), Died(s, "exit")}
  ELSE LET main == Pop(s)
           rest == PopMany(main.s, count, <<>>)
       IN  {PushComputed(rest.s, s, PolyCompose(main.poly, count, rest.arr))}

\* The outcomes of ParametricUnaryOperation, a set: one outcome unless
\* the behaviour is undefined.
ParametricUnaryOperation(s, instruction, eof) ==
  IF strncmp0(instruction, DEG_BY_STRING, DEG_BY_LEN)
  THEN IF /\ strncmp0(instruction, DEG_BY_WITH_SPACE_STRING, DEG_BY_LEN + 1)
          /\ isdigit(CharAt(instruction, DEG_BY_LEN + 1))
       THEN LET var_idx == strtoull(instruction, DEG_BY_LEN + 1)
            IN  IF \/ BadParamEnd(instruction, var_idx.last, eof)
                   \/ ~IsDegByValid(var_idx.val, var_idx.erange)
                THEN {HandleErrorCode(s, DEG_BY_WRONG_VAR_CODE)}
                ELSE IF StackIsEmpty(s)
                THEN {HandleErrorCode(s, STACK_UNDERFLOW_CODE)}
                ELSE {Done(Push(Pop(s).s, Pop(s).poly), NO_ERROR_CODE,
                           CalcDegBy(Pop(s).poly, var_idx.val))}
       ELSE IF ~isspace(CharAt(instruction, DEG_BY_LEN))
       THEN {HandleErrorCode(s, WRONG_COMMAND_CODE)}
       ELSE {HandleErrorCode(s, DEG_BY_WRONG_VAR_CODE)}
  ELSE IF strncmp0(instruction, AT_STRING, AT_LEN)
  THEN IF /\ strncmp0(instruction, AT_WITH_SPACE_STRING, AT_LEN + 1)
          /\ \/ isdigit(CharAt(instruction, AT_LEN + 1))
             \/ CharAt(instruction, AT_LEN + 1) = MINUS_SIGN
       THEN LET coeff == strtol(instruction, AT_LEN + 1)
            IN  IF \/ BadParamEnd(instruction, coeff.last, eof)
                   \/ ~IsCoeffOrAtArgValid(coeff.val, coeff.erange)
                THEN {HandleErrorCode(s, AT_WRONG_VAL_CODE)}
                ELSE IF StackIsEmpty(s)
                THEN {HandleErrorCode(s, STACK_UNDERFLOW_CODE)}
                ELSE {PushComputed(Pop(s).s, s, CalcAt(Pop(s).poly, coeff.val))}
       ELSE IF ~isspace(CharAt(instruction, AT_LEN))
       THEN {HandleErrorCode(s, WRONG_COMMAND_CODE)}
       ELSE {HandleErrorCode(s, AT_WRONG_VAL_CODE)}
  ELSE IF strncmp0(instruction, COMPOSE_STRING, COMPOSE_LEN)
  THEN IF /\ strncmp0(instruction, COMPOSE_WITH_SPACE_STRING, COMPOSE_LEN + 1)
          /\ isdigit(CharAt(instruction, COMPOSE_LEN + 1))
       THEN LET count == strtoull(instruction, COMPOSE_LEN + 1)
            IN  IF \/ BadParamEnd(instruction, count.last, eof)
                   \/ ~IsComposeValid(count.val, count.erange)
                THEN {HandleErrorCode(s, COMPOSE_WRONG_PARAM_CODE)}
                ELSE IF (StackSize(s) - 1) % (ULONG_MAX + 1) < count.val
                THEN {HandleErrorCode(s, STACK_UNDERFLOW_CODE)}
                ELSE ComposeOnStack(s, count.val)
       ELSE IF ~isspace(CharAt(instruction, COMPOSE_LEN))
       THEN {HandleErrorCode(s, WRONG_COMMAND_CODE)}
       ELSE {HandleErrorCode(s, COMPOSE_WRONG_PARAM_CODE)}
  ELSE {Done(s, NO_ERROR_CODE, <<>>)}

CalcInterpretOperation(s, instruction, eof) ==
  IF InstrCmp(ZERO_STRING, instruction, eof)
  THEN {NullaryOperation(s, instruction, eof)}
  ELSE IF \E unary \in {IS_COEFF_STRING, IS_ZERO_STRING, CLONE_STRING,
                        NEG_STRING, DEG_STRING, PRINT_STRING, POP_STRING} :
            InstrCmp(unary, instruction, eof)
  THEN {UnaryOperation(s, instruction, eof)}
  ELSE IF \E binary \in {ADD_STRING, MUL_STRING, SUB_STRING, IS_EQ_STRING} :
            InstrCmp(binary, instruction, eof)
  THEN {BinaryOperation(s, instruction, eof)}
  ELSE IF \/ strncmp0(instruction, DEG_BY_STRING, DEG_BY_LEN)
          \/ strncmp0(instruction, AT_STRING, AT_LEN)
          \/ strncmp0(instruction, COMPOSE_STRING, COMPOSE_LEN)
  THEN ParametricUnaryOperation(s, instruction, eof)
  ELSE {HandleErrorCode(s, WRONG_COMMAND_CODE)}

\* The code CalcReadLine leaves in the handler after PolyRead: text left
\* after the polynomial (help is neither NULL nor at the end of the line)
\* makes it WRONG_POLY_CODE.
CodeAfterRead(line, eof, help, code) ==
  IF /\ help # NULL_LAST
     /\ CharAt(line, help) # NEWLINE
     /\ ~(CharAt(line, help) = NULL_CHAR /\ eof)
  THEN WRONG_POLY_CODE
  ELSE code

\* The end of CalcReadLine's last branch: the error is reported and the
\* polynomial dropped, or the polynomial is pushed.
PushRead(s, line, eof, input_poly) ==
  IF IsError(CodeAfterRead(line, eof, input_poly.last, input_poly.code))
  THEN {HandleErrorCode(s, CodeAfterRead(line, eof, input_poly.last,
                                         input_poly.code))}
  ELSE {PushComputed(s, s, input_poly.p)}

\* What getline returned: nothing at the end of the input (GETLINE_ERROR),
\* else the line, with its newline unless the input ended before one.
CalcReadLine(s, line, eof) ==
  IF \/ line = <<>>
     \/ CharAt(line, 0) = COMMENT_CHAR
     \/ CharAt(line, 0) = NEWLINE
  THEN {Done(s, NO_ERROR_CODE, <<>>)}
  ELSE IF isalpha(CharAt(line, 0)) THEN CalcInterpretOperation(s, line, eof)
  ELSE PushRead(s, line, eof,
                PolyRead(line, 0, NULL_LAST, NO_ERROR_CODE, eof))

(* ---------------------------------------------------------------------- *)
(* State                                                                   *)
(* ---------------------------------------------------------------------- *)

VARIABLES
  monos,        \* the normalizer's input: a list of monomials
  monos2,       \* a second list, for comparing two normalizations
  p, q,         \* the operands of an engine operation
  op,           \* the operation applied last ("init": none yet)
  res,          \* its result
  res2,         \* the result it is compared with
  arg,          \* the number the operation was given (0: none)
  line,         \* the line getline read last
  feof,         \* feof(stdin)
  parsed,       \* what the parser returned for line
  stack,        \* the calculator's stack
  line_number,  \* main's line counter
  code,         \* the error reported for line (NO_ERROR_CODE: none)
  out,          \* what line made the calculator print to stdout
  died,         \* "no", or how the process died
  third,        \* a third operand
  deg,          \* the number an operation returned (a degree)
  eq,           \* the truth value an operation returned
  pushed        \* the polynomials pushed and not yet popped, the last one last

normVars == <<monos, monos2>>
algVars == <<p, q, arg>>
readVars == <<line, feof, parsed>>
calcVars == <<stack, line_number, code, out, died>>
relVars == <<third, deg, eq, pushed>>

vars == <<monos, monos2, p, q, op, res, res2, arg, line, feof, parsed,
          stack, line_number, code, out, died, third, deg, eq, pushed>>

\* The variables a specification does not use stay as they are here.
NormIdle == monos = <<>> /\ monos2 = <<>>

AlgIdle == p = PolyZero /\ q = PolyZero /\ arg = 0

ReadIdle ==
  line = <<>> /\ feof = FALSE /\ parsed = PolyResult(PolyZero, NULL_LAST, NO_ERROR_CODE)

CalcIdle ==
  /\ stack = StackInit
  /\ line_number = 0
  /\ code = NO_ERROR_CODE
  /\ out = <<>>
  /\ died = "no"

RelIdle == third = PolyZero /\ deg = 0 /\ eq = FALSE /\ pushed = <<>>

(* ---------------------------------------------------------------------- *)
(* SpecNorm: the normalizer on bounded lists of monomials                  *)
(* ---------------------------------------------------------------------- *)

\* Longest list of monomials handed to the normalizer.
MaxMonos == 3

\* Largest exponent in those lists.
MaxNormExp == 2

\* x_1 and -x_1, as coefficients of a monomial in x_0.
NestedX1 == PolyFromSizeAndArray(1, << [p |-> PolyFromCoeff(1), exp |-> 1] >>)
NestedNegX1 == PolyFromSizeAndArray(1, << [p |-> PolyFromCoeff(-1), exp |-> 1] >>)

\* Coefficients of the input monomials: canonical, not zero, with pairs
\* that cancel (3 and -3, x_1 and -x_1).
NormCoeffs ==
  {PolyFromCoeff(3), PolyFromCoeff(-3), PolyFromCoeff(1),
   NestedX1, NestedNegX1}

NormMonos == [p : NormCoeffs, exp : 0..MaxNormExp]

\* Every list of at most n of those monomials, in every order.
ListsUpTo(n) == UNION {[1..k -> NormMonos] : k \in 0..n}

\* The scenario of spec.md, section 8: a list with a zero coefficient.
ScenarioList ==
  << [p |-> PolyFromCoeff(3), exp |-> 2], [p |-> PolyFromCoeff(0), exp |-> 5],
     [p |-> PolyFromCoeff(-3), exp |-> 2] >>

NormInputs == ListsUpTo(MaxMonos) \cup {ScenarioList}

\* The permutations of 1..n.
Perms(n) == {f \in [1..n -> 1..n] : \A i, j \in 1..n : i # j => f[i] # f[j]}

InitNorm ==
  /\ monos \in NormInputs
  /\ monos2 = <<>>
  /\ res2 = PolyZero
  /\ op = "init"
  /\ res = PolyZero
  /\ AlgIdle /\ ReadIdle /\ CalcIdle /\ RelIdle

NormAddMonos ==
  /\ op = "init"
  /\ op' = "PolyAddMonos"
  /\ res' = PolyAddMonos(Len(monos), monos)
  /\ UNCHANGED <<normVars, res2, algVars, readVars, calcVars, relVars>>

NormOwnMonos ==
  /\ op = "init"
  /\ op' = "PolyOwnMonos"
  /\ res' = PolyOwnMonos(Len(monos), monos)
  /\ UNCHANGED <<normVars, res2, algVars, readVars, calcVars, relVars>>

NormCloneMonos ==
  /\ op = "init"
  /\ op' = "PolyCloneMonos"
  /\ res' = PolyCloneMonos(Len(monos), monos)
  /\ UNCHANGED <<normVars, res2, algVars, readVars, calcVars, relVars>>

\* monos and a reordering of it, both normalized.
NormReordered ==
  /\ op = "init"
  /\ \E f \in Perms(Len(monos)) :
       /\ monos2' = [i \in 1..Len(monos) |-> monos[f[i]]]
       /\ res2' = PolyAddMonos(Len(monos), monos2')
  /\ op' = "reordered"
  /\ res' = PolyAddMonos(Len(monos), monos)
  /\ UNCHANGED <<monos, algVars, readVars, calcVars, relVars>>

\* monos and another list of at most one monomial, both normalized.
NormOther ==
  /\ op = "init"
  /\ \E other \in ListsUpTo(1) :
       /\ monos2' = other
       /\ res2' = PolyAddMonos(Len(other), other)
  /\ op' = "other"
  /\ res' = PolyAddMonos(Len(monos), monos)
  /\ UNCHANGED <<monos, algVars, readVars, calcVars, relVars>>

NextNorm ==
  \/ NormAddMonos
  \/ NormOwnMonos
  \/ NormCloneMonos
  \/ NormReordered
  \/ NormOther

SpecNorm == InitNorm /\ [][NextNorm]_vars

Normalized == op \in {"PolyAddMonos", "PolyOwnMonos", "PolyCloneMonos"}

\* C1: what the normalizer returns is a constant, or a non-empty term list
\* of strictly ascending exponents none of whose monomials, the last one
\* included, has the zero constant as coefficient.
C1_NormalizerShape ==
  Normalized =>
    \/ PolyIsCoeff(res)
    \/ /\ ~IsAborted(res)
       /\ Len(res.arr) >= 1
       /\ StrictlyAscending(res)
       /\ \A i \in 1..Len(res.arr) : ~PolyIsZero(res.arr[i].p)

\* The exponents at which the monomials of a list do not sum to zero.
Survivors(list) ==
  {e \in 0..ListTopExp(list) :
     \E vec \in VecsOf(list, list) : vec[1] = e /\ ListCoeffAt(list, vec) # 0}

\* The only term that survives has exponent 0 and a constant coefficient.
SurvivorIsConstant(list) ==
  /\ Survivors(list) = {0}
  /\ \A vec \in VecsOf(list, list) :
       (\E i \in 1..Len(vec) : vec[i] # 0) => ListCoeffAt(list, vec) = 0

ZeroVec(list) == [i \in 1..ListDepth(list) |-> 0]

\* C2: when no term survives merging and the removal of zero sums the
\* normalizer returns Constant(0); when the only survivor is (c, 0) with a
\* constant c it returns Constant(c), whatever terms cancelled.
C2_CollapseRules ==
  op = "PolyAddMonos" =>
    /\ Survivors(monos) = {} => res = PolyFromCoeff(0)
    /\ SurvivorIsConstant(monos) =>
         res = PolyFromCoeff(ListCoeffAt(monos, ZeroVec(monos)))

\* The scenario of spec.md: [(3,2),(0,5),(-3,2)] normalizes to Constant(0).
C2_Scenario ==
  (op = "PolyAddMonos" /\ monos = ScenarioList) => res = PolyFromCoeff(0)

\* C3: two lists that sum to the same polynomial normalize to structurally
\* identical values, on which PolyIsEq is true; two lists that sum to
\* different polynomials normalize to values on which PolyIsEq is false.
C3_CanonicalUniqueness ==
  op \in {"reordered", "other"} =>
    IF SameListDenotation(monos, monos2)
    THEN res = res2 /\ PolyIsEq(res, res2)
    ELSE ~PolyIsEq(res, res2)

\* The part of C3 about reorderings alone.
C3_Reordered == op = "reordered" => res = res2 /\ PolyIsEq(res, res2)

(* ---------------------------------------------------------------------- *)
(* SpecRead: the parser on the text of one monomial                        *)
(* ---------------------------------------------------------------------- *)

\* The largest exponent literal read: past every value a long holds.
MaxExpLiteral == 2 ^ LONG_BITS + 2

\* The coefficients written in the monomials read.
ReadCoeffs == {PolyFromCoeff(1), PolyFromCoeff(-2), NestedX1}

\* The text "(c,v)" of a monomial with coefficient c and exponent literal
\* v, followed by a newline unless the input ends there.
MonoLine(c, v, eof) ==
  <<OPENING_BRACKET>> \o PolyPrint(c) \o <<SEPARATOR>> \o NatToText(v)
    \o <<CLOSING_BRACKET>> \o (IF eof THEN <<>> ELSE <<NEWLINE>>)

InitRead ==
  /\ feof \in BOOLEAN
  /\ \E c \in ReadCoeffs, v \in 0..MaxExpLiteral : line = MonoLine(c, v, feof)
  /\ parsed = PolyResult(PolyZero, NULL_LAST, NO_ERROR_CODE)
  /\ op = "init"
  /\ res = PolyZero
  /\ res2 = PolyZero
  /\ NormIdle /\ AlgIdle /\ CalcIdle /\ RelIdle

ReadMono ==
  /\ op = "init"
  /\ op' = "MonoRead"
  /\ parsed' = MonoRead(line, 0, NULL_LAST, NO_ERROR_CODE, feof)
  /\ UNCHANGED <<normVars, algVars, res, res2, line, feof, calcVars, relVars>>

ReadPoly ==
  /\ op = "init"
  /\ op' = "PolyRead"
  /\ parsed' = PolyRead(line, 0, NULL_LAST, NO_ERROR_CODE, feof)
  /\ UNCHANGED <<normVars, algVars, res, res2, line, feof, calcVars, relVars>>

NextRead ==
  \/ ReadMono
  \/ ReadPoly

SpecRead == InitRead /\ [][NextRead]_vars

\* C4: MonoRead rejects every exponent literal whose value is outside
\* [0, INT_MAX] with WRONG POLY and builds nothing, also when the cast to
\* int brings the value into the range.
C4_ExponentLiteralRange ==
  \A c \in ReadCoeffs, v \in 0..MaxExpLiteral :
    (/\ op = "MonoRead"
     /\ line = MonoLine(c, v, feof)
     /\ v \notin EXP_LOWER_BOUND..EXP_UPPER_BOUND)
    => (parsed.code = WRONG_POLY_CODE /\ parsed.m = MonoDummy)

\* The literals that are rejected: those the cast leaves out of range, and
\* those strtol could not hold.
C4_RejectedLiterals ==
  \A c \in ReadCoeffs, v \in 0..MaxExpLiteral :
    (op = "MonoRead" /\ line = MonoLine(c, v, feof))
    => (parsed.code = WRONG_POLY_CODE
          <=> (v > LONG_MAX \/ LongToInt(v) \notin 0..INT_MAX))

(* ---------------------------------------------------------------------- *)
(* SpecAlg: the engine's operators on bounded canonical polynomials        *)
(* ---------------------------------------------------------------------- *)

\* Largest exponent and longest term list of the operands.
MaxAlgExp == 2
MaxAlgTerms == 2

\* 1 + x_1, as a coefficient of a monomial in x_0.
NestedOnePlusX1 ==
  PolyFromSizeAndArray(2, << [p |-> PolyFromCoeff(1), exp |-> 0],
                             [p |-> PolyFromCoeff(1), exp |-> 1] >>)

\* The constants: the ends of the range, where arithmetic wraps, and
\* small values.
AlgConsts == {PolyFromCoeff(c) : c \in {LONG_MIN, -1, 0, 1, 2, LONG_MAX}}

\* The canonical term lists of at most MaxAlgTerms monomials with
\* exponents up to MaxAlgExp and coefficients from coeffs.
TermLists(coeffs) ==
  {l \in UNION {[1..k -> [p : coeffs, exp : 0..MaxAlgExp]] : k \in 1..MaxAlgTerms} :
     IsCanonical([coeff |-> Len(l), arr |-> l])}

AlgPolys ==
  AlgConsts \cup
  {PolyFromSizeAndArray(Len(l), l) :
     l \in TermLists({PolyFromCoeff(-1), PolyFromCoeff(LONG_MIN),
                      NestedX1, NestedOnePlusX1})}

\* The second operands: fewer coefficients.
AlgPolys2 ==
  AlgConsts \cup
  {PolyFromSizeAndArray(Len(l), l) :
     l \in TermLists({PolyFromCoeff(1), NestedOnePlusX1})}

\* The arguments PolyAt is applied to.
AtArgs == {-1, 0, 2}

\* The most polynomials PolyCompose substitutes.
MaxComposeArgs == 2

InitAlg ==
  /\ p \in AlgPolys
  /\ q \in AlgPolys2
  /\ arg = 0
  /\ op = "init"
  /\ res = PolyZero
  /\ res2 = PolyZero
  /\ NormIdle /\ ReadIdle /\ CalcIdle /\ RelIdle

\* PolyAdd, in both orders of the operands.
AlgAdd ==
  /\ op = "init"
  /\ op' = "PolyAdd"
  /\ res' = PolyAdd(p, q)
  /\ res2' = PolyAdd(q, p)
  /\ UNCHANGED <<normVars, algVars, readVars, calcVars, relVars>>

AlgSub ==
  /\ op = "init"
  /\ op' = "PolySub"
  /\ res' = PolySub(p, q)
  /\ UNCHANGED <<normVars, algVars, res2, readVars, calcVars, relVars>>

\* PolyNeg(p), and p added to it.
AlgNeg ==
  /\ op = "init"
  /\ op' = "PolyNeg"
  /\ res' = PolyNeg(p)
  /\ res2' = PolyAdd(p, PolyNeg(p))
  /\ UNCHANGED <<normVars, algVars, readVars, calcVars, relVars>>

\* PolySub(p, p).
AlgSubSelf ==
  /\ op = "init"
  /\ op' = "PolySubSelf"
  /\ res' = PolySub(p, p)
  /\ UNCHANGED <<normVars, algVars, res2, readVars, calcVars, relVars>>

\* PolyMul, in both orders of the operands.
AlgMul ==
  /\ op = "init"
  /\ op' = "PolyMul"
  /\ res' = PolyMul(p, q)
  /\ res2' = PolyMul(q, p)
  /\ UNCHANGED <<normVars, algVars, readVars, calcVars, relVars>>

\* PolyAt(p, x) for an argument x.
AlgAt ==
  /\ op = "init"
  /\ op' = "PolyAt"
  /\ arg' \in AtArgs
  /\ res' = PolyAt(p, arg')
  /\ UNCHANGED <<normVars, p, q, res2, readVars, calcVars, relVars>>

\* PolyCompose(p, k, {q, p, q}) for a count k.
AlgCompose ==
  /\ op = "init"
  /\ op' = "PolyCompose"
  /\ arg' \in 0..MaxComposeArgs
  /\ res' = PolyCompose(p, arg', SubSeq(<<q, p, q>>, 1, arg'))
  /\ UNCHANGED <<normVars, p, q, res2, readVars, calcVars, relVars>>

NextAlg ==
  \/ AlgAdd
  \/ AlgSub
  \/ AlgNeg
  \/ AlgSubSelf
  \/ AlgMul
  \/ AlgAt

SpecAlg == InitAlg /\ [][NextAlg]_vars

\* SpecOps: the same operands, and PolyCompose as well.
NextOps ==
  \/ AlgAdd
  \/ AlgSub
  \/ AlgNeg
  \/ AlgSubSelf
  \/ AlgMul
  \/ AlgAt
  \/ AlgCompose

SpecOps == InitAlg /\ [][NextOps]_vars

\* C5: PolyAdd, PolySub, PolyNeg, PolyMul, PolyAt and PolyCompose return
\* canonical polynomials for canonical operands, coefficient arithmetic
\* wrapping.
C5_ClosedUnderOperators ==
  op # "init" => (IsCanonical(res) /\ IsCanonical(res2))

\* PolyAdd, PolySub and PolyNeg do return canonical polynomials.
C5_AdditiveOperatorsClosed ==
  op \in {"PolyAdd", "PolySub", "PolyNeg", "PolySubSelf"}
    => (IsCanonical(res) /\ IsCanonical(res2))

\* C7: PolyAdd(p, Constant(0)) and PolyAdd(Constant(0), p) are p, and
\* PolyIsEq says so.
C7_AdditiveIdentity ==
  (op = "PolyAdd" /\ PolyIsZero(q)) =>
    /\ res = p /\ PolyIsEq(res, p)
    /\ res2 = p /\ PolyIsEq(res2, p)

C7_Witness ==
  /\ op = "PolyAdd" /\ PolyIsZero(q)
  /\ Depth(p) = 2 /\ p.arr[1].exp > 0
  /\ res = p /\ res2 = p

\* C8: PolyAdd(p, PolyNeg(p)) is Constant(0), also for the constant
\* LONG_MIN whose negation wraps, and PolySub(p, p) is Constant(0).
C8_AdditiveInverse ==
  /\ op = "PolyNeg" => res2 = PolyFromCoeff(0)
  /\ op = "PolySubSelf" => res = PolyFromCoeff(0)

C8_Witness ==
  \/ op = "PolyNeg" /\ p = PolyFromCoeff(LONG_MIN) /\ res = p /\ res2 = PolyZero
  \/ op = "PolySubSelf" /\ Depth(p) = 2 /\ res = PolyZero

\* C9: PolyMul(p, Constant(1)) is p and PolyMul(p, Constant(0)) is
\* Constant(0), in either order of the operands.
C9_MultiplicativeIdentityAndZero ==
  /\ (op = "PolyMul" /\ q = PolyFromCoeff(1)) => (res = p /\ res2 = p)
  /\ (op = "PolyMul" /\ q = PolyFromCoeff(0)) =>
       (res = PolyFromCoeff(0) /\ res2 = PolyFromCoeff(0))

C9_Witness ==
  /\ op = "PolyMul" /\ q = PolyFromCoeff(1)
  /\ Depth(p) = 2 /\ Len(p.arr) = MaxAlgTerms
  /\ res = p /\ res2 = p

\* C10: PolyAdd(p, q) is structurally equal to PolyAdd(q, p).
C10_AddCommutative ==
  op = "PolyAdd" => (res = res2 /\ PolyIsEq(res, res2))

C10_Witness ==
  /\ op = "PolyAdd"
  /\ Depth(p) = 2 /\ Depth(q) = 2
  /\ p # q
  /\ \E i \in 1..Len(p.arr), j \in 1..Len(q.arr) : p.arr[i].exp = q.arr[j].exp
  /\ res = res2 /\ ~PolyIsCoeff(res)

(* ---------------------------------------------------------------------- *)
(* Spec: the calculator on bounded sequences of lines                      *)
(* ---------------------------------------------------------------------- *)

\* The most lines main reads.
MaxCalcLines == 4

\* x_0, x_0 * x_1, 1 + LONG_MIN * x_0, and the terms x_0 + 3 x_0^2 - 3 x_0^2
\* as they are written, not yet normalized.
CalcPolys ==
  {PolyFromCoeff(1), PolyFromCoeff(2),
   [coeff |-> 1, arr |-> << [p |-> PolyFromCoeff(1), exp |-> 1] >>],
   [coeff |-> 1, arr |-> << [p |-> NestedX1, exp |-> 1] >>],
   [coeff |-> 2, arr |-> << [p |-> PolyFromCoeff(1), exp |-> 0],
                            [p |-> PolyFromCoeff(LONG_MIN), exp |-> 1] >>],
   [coeff |-> 3, arr |-> << [p |-> PolyFromCoeff(1), exp |-> 1],
                            [p |-> PolyFromCoeff(3), exp |-> 2],
                            [p |-> PolyFromCoeff(-3), exp |-> 2] >>]}

PolyLines == {PolyPrint(v) : v \in CalcPolys}

CommandLines ==
  {ZERO_STRING, IS_COEFF_STRING, IS_ZERO_STRING, CLONE_STRING, ADD_STRING,
   MUL_STRING, NEG_STRING, SUB_STRING, IS_EQ_STRING, DEG_STRING,
   PRINT_STRING, POP_STRING}
  \cup {AT_WITH_SPACE_STRING \o NumToText(x) : x \in {0, 2}}
  \cup {DEG_BY_WITH_SPACE_STRING \o NumToText(i) : i \in {0, 1}}
  \cup {COMPOSE_WITH_SPACE_STRING \o NumToText(k) : k \in {0, 1, 2}}

\* Lines that are neither: unknown or cut commands, bad parameters, text
\* after a polynomial, a comment, an empty line.
OtherLines ==
  {<<"F", "O", "O">>, AT_STRING, AT_WITH_SPACE_STRING \o <<"x">>,
   DEG_BY_STRING, DEG_BY_WITH_SPACE_STRING \o <<"-", "1">>,
   COMPOSE_STRING \o <<"1">>, <<"(", "1", ",">>, <<"1", " ">>,
   <<COMMENT_CHAR, "1">>, <<>>}

CalcLines == PolyLines \cup CommandLines \cup OtherLines

Init ==
  /\ CalcIdle
  /\ line = <<>>
  /\ feof = FALSE
  /\ parsed = PolyResult(PolyZero, NULL_LAST, NO_ERROR_CODE)
  /\ op = "init"
  /\ res = PolyZero
  /\ res2 = PolyZero
  /\ NormIdle /\ AlgIdle /\ RelIdle

\* One turn of main's loop: getline returns text, with a newline or, at
\* the end of the input, without one (nothing at all: GETLINE_ERROR).
MainReadLineFrom(lines, most) ==
  /\ op # "Empty"
  /\ ~feof
  /\ died = "no"
  /\ line_number < most
  /\ \E text \in lines, eof \in BOOLEAN :
       /\ line' = IF eof THEN text ELSE text \o <<NEWLINE>>
       /\ feof' = eof
       /\ \E r \in CalcReadLine(stack, line', eof) :
            /\ stack' = r.stack
            /\ code' = r.code
            /\ out' = r.out
            /\ died' = r.died
  /\ line_number' = line_number + 1
  /\ op' = "CalcReadLine"
  /\ UNCHANGED <<normVars, algVars, res, res2, parsed, relVars>>

MainReadLine == MainReadLineFrom(CalcLines, MaxCalcLines)

\* main leaves its loop at the end of the input and empties the stack.
MainExit ==
  /\ op = "CalcReadLine"
  /\ feof
  /\ died = "no"
  /\ op' = "Empty"
  /\ stack' = Empty(stack)
  /\ UNCHANGED <<normVars, algVars, res, res2, readVars, line_number, code,
                 out, died, relVars>>

Next ==
  \/ MainReadLine
  \/ MainExit

Spec == Init /\ [][Next]_vars

\* C6: whatever lines are read, every polynomial on the stack is canonical
\* and no assertion of the engine fails.
C6_StackCanonicalNoAssertion ==
  /\ died # "SIGABRT"
  /\ \A i \in 1..Len(stack.elements) : IsCanonical(stack.elements[i])

\* The first half of C6 alone: no assertion of the engine fails.
C6_NoAssertionFails == died # "SIGABRT"

(* ---------------------------------------------------------------------- *)
(* SpecMul: PolyMul on operands whose products and exponent sums wrap      *)
(* ---------------------------------------------------------------------- *)

\* An exponent in range whose double is past INT_MAX.
BigExp == INT_MAX \div 2 + 1

\* 1 + LONG_MIN * x_1, as a coefficient of a monomial in x_0: twice it is
\* the constant 2.
NestedOnePlusMinX1 ==
  PolyFromSizeAndArray(2, << [p |-> PolyFromCoeff(1), exp |-> 0],
                             [p |-> PolyFromCoeff(LONG_MIN), exp |-> 1] >>)

\* The coefficients of the operands: 2 * LONG_MIN and LONG_MIN * LONG_MIN
\* wrap to 0.
MulCoeffs ==
  {PolyFromCoeff(1), PolyFromCoeff(2), PolyFromCoeff(LONG_MIN),
   NestedX1, NestedOnePlusMinX1}

\* The canonical term lists of at most two monomials over MulCoeffs with
\* exponents 0, 1 and BigExp.
MulTermLists ==
  {l \in UNION {[1..k -> [p : MulCoeffs, exp : {0, 1, BigExp}]] : k \in 1..2} :
     IsCanonical([coeff |-> Len(l), arr |-> l])}

MulPolys ==
  {PolyFromCoeff(c) : c \in {0, 1, 2, LONG_MIN}}
  \cup {PolyFromSizeAndArray(Len(l), l) : l \in MulTermLists}

InitMul ==
  /\ p \in MulPolys
  /\ q \in MulPolys
  /\ arg = 0
  /\ op = "init"
  /\ res = PolyZero
  /\ res2 = PolyZero
  /\ NormIdle /\ ReadIdle /\ CalcIdle /\ RelIdle

\* PolyDeg of PolyMul(p, q).
MulDeg ==
  /\ op = "init"
  /\ op' = "PolyDegMul"
  /\ res' = PolyMul(p, q)
  /\ deg' = PolyDeg(PolyMul(p, q))
  /\ UNCHANGED <<normVars, algVars, res2, readVars, calcVars, third, eq,
                 pushed>>

NextMul ==
  \/ AlgMul
  \/ MulDeg

SpecMul == InitMul /\ [][NextMul]_vars

AssocTermLists ==
  {l \in UNION {[1..k -> [p : {PolyFromCoeff(1), PolyFromCoeff(-1),
                               NestedX1, NestedNegX1},
                          exp : {0, 1}]] : k \in 1..2} :
     IsCanonical([coeff |-> Len(l), arr |-> l])}

AssocPolys ==
  {PolyFromCoeff(c) : c \in {LONG_MIN, -1, 0, 1, LONG_MAX}}
  \cup {PolyFromSizeAndArray(Len(l), l) : l \in AssocTermLists}

InitAssoc ==
  /\ p \in AssocPolys
  /\ q \in AssocPolys
  /\ third \in AssocPolys
  /\ arg = 0
  /\ deg = 0
  /\ eq = FALSE
  /\ pushed = <<>>
  /\ op = "init"
  /\ res = PolyZero
  /\ res2 = PolyZero
  /\ NormIdle /\ ReadIdle /\ CalcIdle

\* PolyAdd(PolyAdd(p, q), third) and PolyAdd(p, PolyAdd(q, third)).
AssocAdd ==
  /\ op = "init"
  /\ op' = "PolyAddAssoc"
  /\ res' = PolyAdd(PolyAdd(p, q), third)
  /\ res2' = PolyAdd(p, PolyAdd(q, third))
  /\ UNCHANGED <<normVars, algVars, readVars, calcVars, relVars>>

NextAssoc ==
  \/ AssocAdd

SpecAssoc == InitAssoc /\ [][NextAssoc]_vars

\* C12: PolyAdd(PolyAdd(p, q), r) is structurally equal to
\* PolyAdd(p, PolyAdd(q, r)) for canonical p, q and r, also when an
\* intermediate sum is a constant or zero.
C12_AddAssociative ==
  op = "PolyAddAssoc" => (res = res2 /\ PolyIsEq(res, res2))

\* p + q cancels to a constant (or to zero) and the third operand is not
\* one.
C12_Witness ==
  /\ op = "PolyAddAssoc"
  /\ ~PolyIsCoeff(p) /\ ~PolyIsCoeff(q) /\ ~PolyIsCoeff(third)
  /\ PolyIsCoeff(PolyAdd(p, q))
  /\ res = res2 /\ ~PolyIsCoeff(res)

\* The exponent vectors (of x_0 and x_1) a product of two operands of
\* SpecMul can have a coefficient at.
MulVecs == {<<a, b>> : a \in 0..(2 * BigExp), b \in 0..2}

\* The coefficient of the product of p and q at vec: the sum, over the
\* ways to split vec, of the products of the coefficients of p and q.
ProductCoeffAt(p1, p2, vec) ==
  SumSeq([k \in 1..((vec[1] + 1) * (vec[2] + 1)) |->
            LET a == (k - 1) \div (vec[2] + 1)
                b == (k - 1) % (vec[2] + 1)
            IN  CoeffMul(CoeffAt(p1, <<a, b>>),
                         CoeffAt(p2, <<vec[1] - a, vec[2] - b>>))])

\* The constants of p and the exponents of p, at any depth.
RECURSIVE ConstsOf(_)
ConstsOf(p1) ==
  IF PolyIsCoeff(p1) THEN {p1.coeff}
  ELSE UNION {ConstsOf(p1.arr[i].p) : i \in 1..Len(p1.arr)}

\* Nothing wraps in the product of p and q: small constants and exponents.
SmallOperands ==
  /\ ConstsOf(p) \cup ConstsOf(q) \subseteq {1, 2}
  /\ TopExp(p) <= 1 /\ TopExp(q) <= 1

\* C13: for non-constant canonical p and q, PolyMul(p, q) is the canonical
\* form of the sum of the pairwise products of their monomials: it is
\* canonical, and its coefficient at every exponent vector is the sum of
\* the products of the coefficients of p and q whose exponents add up to it.
C13_MulIsNormalizedProduct ==
  (op = "PolyMul" /\ ~PolyIsCoeff(p) /\ ~PolyIsCoeff(q)) =>
    /\ IsCanonical(res)
    /\ \A vec \in MulVecs : CoeffAt(res, vec) = ProductCoeffAt(p, q, vec)

\* The same where no coefficient and no exponent wraps: it holds there.
C13_SmallOperands ==
  (op = "PolyMul" /\ ~PolyIsCoeff(p) /\ ~PolyIsCoeff(q) /\ SmallOperands) =>
    /\ IsCanonical(res)
    /\ \A vec \in MulVecs : CoeffAt(res, vec) = ProductCoeffAt(p, q, vec)

\* (1 + x_0) * (1 + x_0) is 1 + 2 x_0 + x_0^2.
C13_Scenario ==
  LET OnePlusX ==
        PolyFromSizeAndArray(2, << [p |-> PolyFromCoeff(1), exp |-> 0],
                                   [p |-> PolyFromCoeff(1), exp |-> 1] >>)
  IN  (op = "PolyMul" /\ p = OnePlusX /\ q = OnePlusX) =>
        res = PolyFromSizeAndArray(3,
                << [p |-> PolyFromCoeff(1), exp |-> 0],
                   [p |-> PolyFromCoeff(2), exp |-> 1],
                   [p |-> PolyFromCoeff(1), exp |-> 2] >>)

\* The exponents of p, at any depth.
RECURSIVE ExpsOf(_)
ExpsOf(p1) ==
  IF PolyIsCoeff(p1) THEN {}
  ELSE {p1.arr[i].exp : i \in 1..Len(p1.arr)}
       \cup UNION {ExpsOf(p1.arr[i].p) : i \in 1..Len(p1.arr)}

\* C14: the exponent sums of PolyMul of two non-constant polynomials are
\* checked against the exponent bound: no monomial of the product has an
\* exponent outside 0..INT_MAX.
C14_ExponentSumChecked ==
  (op = "PolyMul" /\ ~PolyIsCoeff(p) /\ ~PolyIsCoeff(q)) =>
    (ExpsOf(res) \subseteq 0..INT_MAX /\ ExpsOf(res2) \subseteq 0..INT_MAX)

\* What MonoMul does instead: every exponent of the product is the sum of
\* an exponent of p and one of q reduced to the width of poly_exp_t.
C14_ExponentSumWraps ==
  (op = "PolyMul" /\ ~PolyIsCoeff(p) /\ ~PolyIsCoeff(q)) =>
    \A i \in 1..Len(res.arr) :
      \E j \in 1..Len(p.arr), k \in 1..Len(q.arr) :
        res.arr[i].exp = Wrap(p.arr[j].exp + q.arr[k].exp, INT_BITS)

\* No product of a constant of p and a constant of q overflows.
NoProductOverflows ==
  \A a \in ConstsOf(p), b \in ConstsOf(q) : a * b \in LONG_MIN..LONG_MAX

\* C16: for non-zero canonical p and q whose coefficient products do not
\* overflow, PolyDeg(PolyMul(p, q)) = PolyDeg(p) + PolyDeg(q).
C16_DegOfProduct ==
  (/\ op = "PolyDegMul"
   /\ ~PolyIsZero(p) /\ ~PolyIsZero(q)
   /\ NoProductOverflows) =>
    deg = PolyDeg(p) + PolyDeg(q)

\* The same where the sum of the degrees fits poly_exp_t: it holds there.
C16_DegreeInRange ==
  (/\ op = "PolyDegMul"
   /\ ~PolyIsZero(p) /\ ~PolyIsZero(q)
   /\ NoProductOverflows
   /\ TopExp(p) + TopExp(q) + 2 <= INT_MAX) =>
    deg = PolyDeg(p) + PolyDeg(q)

C16_DegreeInRangeWitness ==
  /\ op = "PolyDegMul"
  /\ Depth(p) = 2 /\ Depth(q) = 2 /\ Len(p.arr) = 2 /\ Len(q.arr) = 2
  /\ NoProductOverflows
  /\ TopExp(p) + TopExp(q) + 2 <= INT_MAX
  /\ deg = PolyDeg(p) + PolyDeg(q) /\ deg >= 3

(* ---------------------------------------------------------------------- *)
(* SpecDeg: PolyDeg, PolyDegBy and PolyIsEq on what the engine produces    *)
(* ---------------------------------------------------------------------- *)

\* Largest index of a variable PolyDegBy is asked about: one deeper than
\* the operands nest.
MaxVarIdx == 2

\* The monomials the operands are built from: coefficients that cancel,
\* and the largest exponent.
DegMonos ==
  [p : {PolyFromCoeff(1), PolyFromCoeff(-1), NestedX1, NestedNegX1},
   exp : {0, 1, INT_MAX}]

\* What PolyAddMonos produces from the lists of at most three of them.
DegPolys ==
  {PolyAddMonos(Len(l), l) : l \in UNION {[1..k -> DegMonos] : k \in 0..3}}

\* The second operands: what PolyAddMonos produces from shorter lists.
DegPolys2 ==
  {PolyAddMonos(Len(l), l) :
     l \in UNION {[1..k -> [p : {PolyFromCoeff(1), NestedX1},
                            exp : {0, 1, INT_MAX}]] : k \in 0..2}}

InitDeg ==
  /\ p \in DegPolys
  /\ q \in DegPolys2
  /\ third = PolyZero
  /\ arg = 0
  /\ deg = 0
  /\ eq = FALSE
  /\ pushed = <<>>
  /\ op = "init"
  /\ res = PolyZero
  /\ res2 = PolyZero
  /\ NormIdle /\ ReadIdle /\ CalcIdle

DegTotal ==
  /\ op = "init"
  /\ op' = "PolyDeg"
  /\ deg' = PolyDeg(p)
  /\ UNCHANGED <<normVars, algVars, res, res2, readVars, calcVars, third, eq,
                 pushed>>

DegBy ==
  /\ op = "init"
  /\ op' = "PolyDegBy"
  /\ arg' \in 0..MaxVarIdx
  /\ deg' = PolyDegBy(p, arg')
  /\ UNCHANGED <<normVars, p, q, res, res2, readVars, calcVars, third, eq,
                 pushed>>

\* PolyIsEq, in both orders of the operands.
DegIsEq ==
  /\ op = "init"
  /\ op' = "PolyIsEq"
  /\ eq' = PolyIsEq(p, q)
  /\ deg' = IF PolyIsEq(q, p) THEN 1 ELSE 0
  /\ UNCHANGED <<normVars, algVars, res, res2, readVars, calcVars, third,
                 pushed>>

NextDeg ==
  \/ DegTotal
  \/ DegBy
  \/ DegIsEq

SpecDeg == InitDeg /\ [][NextDeg]_vars

\* The exponent vectors (of x_0 and x_1) an operand can have a coefficient
\* at.
DegVecs == [1..2 -> 0..INT_MAX]

\* The largest sum of exponents over the terms of p that are not zero;
\* -1 when there is none.
TotalDegree(p1) ==
  SetMax({-1} \cup {vec[1] + vec[2] : vec \in {v \in DegVecs : CoeffAt(p1, v) # 0}})

\* C15: PolyDeg(p) is -1 for zero, 0 for a constant that is not zero,
\* else the largest exponent + PolyDeg(coefficient) over the monomials of
\* p; for canonical p that is the largest sum of exponents over the terms
\* of the expanded polynomial.
C15_PolyDeg ==
  op = "PolyDeg" =>
    /\ PolyIsZero(p) => deg = -1
    /\ (PolyIsCoeff(p) /\ ~PolyIsZero(p)) => deg = 0
    /\ ~PolyIsCoeff(p) =>
         deg = SetMax({p.arr[i].exp + PolyDeg(p.arr[i].p) : i \in 1..Len(p.arr)})
    /\ IsCanonical(p) => deg = TotalDegree(p)

\* The same for the canonical p whose degree fits poly_exp_t: it holds
\* there.
C15_DegreeInRange ==
  (op = "PolyDeg" /\ IsCanonical(p) /\ TotalDegree(p) <= INT_MAX) =>
    /\ PolyIsZero(p) => deg = -1
    /\ (PolyIsCoeff(p) /\ ~PolyIsZero(p)) => deg = 0
    /\ ~PolyIsCoeff(p) =>
         deg = SetMax({p.arr[i].exp + PolyDeg(p.arr[i].p) : i \in 1..Len(p.arr)})
    /\ deg = TotalDegree(p)

C15_DegreeInRangeWitness ==
  /\ op = "PolyDeg" /\ IsCanonical(p) /\ Depth(p) = 2 /\ Len(p.arr) = 3
  /\ deg = TotalDegree(p) /\ deg = INT_MAX

\* p1 has a term that is not zero.
DenotesNonZero(p1) == \E vec \in DegVecs : CoeffAt(p1, vec) # 0

\* The largest exponent of x_0 that occurs in p1 with a coefficient that
\* is not zero; -1 when there is none.
LargestExpOfX0(p1) ==
  SetMax({-1} \cup {p1.arr[i].exp : i \in {j \in 1..Len(p1.arr) :
                                            DenotesNonZero(p1.arr[j].p)}})

\* C17: for every polynomial the engine produces that is not a constant,
\* PolyDegBy(p, 0) is the largest exponent of x_0 that occurs with a
\* coefficient that is not zero.
C17_DegByFirstVariable ==
  (op = "PolyDegBy" /\ arg = 0 /\ ~PolyIsCoeff(p)) => deg = LargestExpOfX0(p)

\* The same for canonical p: it holds there.
C17_CanonicalOperand ==
  (op = "PolyDegBy" /\ arg = 0 /\ ~PolyIsCoeff(p) /\ IsCanonical(p)) =>
    deg = LargestExpOfX0(p)

\* Exponents {0, 1, INT_MAX} at the top level give INT_MAX.
C17_Scenario ==
  (/\ op = "PolyDegBy" /\ arg = 0 /\ ~PolyIsCoeff(p) /\ IsCanonical(p)
   /\ {p.arr[i].exp : i \in 1..Len(p.arr)} = {0, 1, INT_MAX}) =>
    deg = INT_MAX

\* The variable x_idx occurs in p1 with an exponent that is not 0.
RECURSIVE ContainsVar(_, _)
ContainsVar(p1, idx) ==
  IF PolyIsCoeff(p1) THEN FALSE
  ELSE IF idx = 0 THEN \E i \in 1..Len(p1.arr) : p1.arr[i].exp > 0
  ELSE \E i \in 1..Len(p1.arr) : ContainsVar(p1.arr[i].p, idx - 1)

\* C18: PolyDegBy(p, var_idx) returns a degree whatever var_idx is: -1
\* for the zero polynomial, 0 for a p that is not zero and does not
\* contain x_var_idx, and for var_idx > 0 and a p that is not a constant
\* the largest PolyDegBy(coefficient, var_idx - 1) over its monomials.
C18_DegByDeeperVariable ==
  (op = "PolyDegBy" /\ IsCanonical(p)) =>
    /\ deg \in -1..INT_MAX
    /\ PolyIsZero(p) => deg = -1
    /\ (~PolyIsZero(p) /\ ~ContainsVar(p, arg)) => deg = 0
    /\ (arg > 0 /\ ~PolyIsCoeff(p)) =>
         deg = SetMax({PolyDegBy(p.arr[i].p, arg - 1) : i \in 1..Len(p.arr)})

\* A variable deeper than p nests, and one p contains below the top.
C18_Witness ==
  /\ op = "PolyDegBy" /\ IsCanonical(p) /\ Depth(p) = 2
  /\ \/ arg = MaxVarIdx /\ deg = 0
     \/ arg = 1 /\ Len(p.arr) = 3 /\ deg = 1

\* p1 and p2 have the same coefficient at every exponent vector.
SameDenotation(p1, p2) ==
  \A vec \in DegVecs : CoeffAt(p1, vec) = CoeffAt(p2, vec)

\* C19: for canonical p and q, PolyIsEq(p, q) is true exactly when p and q
\* denote the same polynomial: constants are equal iff their coefficients
\* are, a constant never equals a term list, and term lists are equal iff
\* they have the same length, equal exponents and equal coefficients.
C19_IsEqIsDenotationEquality ==
  (op = "PolyIsEq" /\ IsCanonical(p) /\ IsCanonical(q)) =>
    /\ eq = SameDenotation(p, q)
    /\ (deg = 1) = eq
    /\ (PolyIsCoeff(p) /\ PolyIsCoeff(q)) => (eq = (p.coeff = q.coeff))
    /\ (PolyIsCoeff(p) # PolyIsCoeff(q)) => ~eq
    /\ (~PolyIsCoeff(p) /\ ~PolyIsCoeff(q)) =>
         eq = /\ Len(p.arr) = Len(q.arr)
              /\ \A i \in 1..Len(p.arr) :
                   /\ p.arr[i].exp = q.arr[i].exp
                   /\ PolyIsEq(p.arr[i].p, q.arr[i].p)

\* Two equal term lists with a nested coefficient, or two that differ only
\* in an exponent.
C19_Witness ==
  /\ op = "PolyIsEq" /\ IsCanonical(p) /\ IsCanonical(q)
  /\ Depth(p) = 2 /\ Depth(q) = 2 /\ Len(p.arr) = 2 /\ Len(q.arr) = 2
  /\ \/ eq /\ p = q
     \/ /\ ~eq
        /\ \A i \in 1..2 : p.arr[i].p = q.arr[i].p
        /\ p.arr[1].exp = q.arr[1].exp

(* ---------------------------------------------------------------------- *)
(* SpecAt: PolyAt of a sum and the sum of two PolyAt                       *)
(* ---------------------------------------------------------------------- *)

\* The arguments of PolyAt: small ones, and ones whose products wrap.
AtAddArgs == {-1, 0, 1, 2, LONG_MIN}

\* The second operands: the constants and the term lists of MulPolys
\* whose coefficients are constants.
AtPolys2 == {v \in MulPolys : Depth(v) <= 1} \cup {PolyFromCoeff(-1)}

InitAt ==
  /\ p \in MulPolys
  /\ q \in AtPolys2
  /\ arg = 0
  /\ op = "init"
  /\ res = PolyZero
  /\ res2 = PolyZero
  /\ NormIdle /\ ReadIdle /\ CalcIdle /\ RelIdle

\* PolyAt(PolyAdd(p, q), x) and PolyAdd(PolyAt(p, x), PolyAt(q, x)).
AtAdd ==
  /\ op = "init"
  /\ op' = "PolyAtAdd"
  /\ arg' \in AtAddArgs
  /\ res' = PolyAt(PolyAdd(p, q), arg')
  /\ res2' = PolyAdd(PolyAt(p, arg'), PolyAt(q, arg'))
  /\ UNCHANGED <<normVars, p, q, readVars, calcVars, relVars>>

NextAt ==
  \/ AtAdd

SpecAt == InitAt /\ [][NextAt]_vars

\* C20: PolyAt(PolyAdd(p, q), x) is structurally equal to
\* PolyAdd(PolyAt(p, x), PolyAt(q, x)) for canonical p and q and every x in
\* the range of poly_coeff_t.
C20_AtIsAdditive ==
  op = "PolyAtAdd" => (res = res2 /\ PolyIsEq(res, res2))

\* The same where nothing wraps: small constants, exponents and arguments.
C20_SmallOperands ==
  (/\ op = "PolyAtAdd"
   /\ SmallOperands
   /\ arg \in {-1, 0, 1, 2}) =>
    (res = res2 /\ PolyIsEq(res, res2))

C20_SmallOperandsWitness ==
  /\ op = "PolyAtAdd" /\ SmallOperands /\ arg = 2
  /\ Depth(p) = 2 /\ Depth(q) = 1 /\ Len(p.arr) = 2 /\ Len(q.arr) = 2
  /\ res = res2 /\ ~PolyIsCoeff(res)

(* ---------------------------------------------------------------------- *)
(* SpecEval: PolyAt and PowerOf                                            *)
(* ---------------------------------------------------------------------- *)

InitEval ==
  /\ p \in MulPolys
  /\ q = PolyZero
  /\ arg = 0
  /\ op = "init"
  /\ res = PolyZero
  /\ res2 = PolyZero
  /\ NormIdle /\ ReadIdle /\ CalcIdle /\ RelIdle

\* PolyAt(p, x) for an argument x, small or one whose powers wrap.
EvalAt ==
  /\ op = "init"
  /\ op' = "PolyAt"
  /\ arg' \in AtAddArgs
  /\ res' = PolyAt(p, arg')
  /\ UNCHANGED <<normVars, p, q, res2, readVars, calcVars, relVars>>

\* The constant MonoAt multiplies a coefficient by: PowerOf(x, n) for
\* every x of poly_coeff_t and every exponent n in range.
EvalPowerOf ==
  /\ op = "init"
  /\ op' = "PowerOf"
  /\ arg' \in LONG_MIN..LONG_MAX
  /\ deg' \in 0..INT_MAX
  /\ res' = PolyFromCoeff(PowerOf(arg', deg'))
  /\ UNCHANGED <<normVars, p, q, res2, readVars, calcVars, third, eq,
                 pushed>>

NextEval ==
  \/ EvalAt
  \/ EvalPowerOf

SpecEval == InitEval /\ [][NextEval]_vars

\* x^n modulo 2^LONG_BITS, by n multiplications.
RECURSIVE PowerMod(_, _)
PowerMod(x, n) == IF n = 0 THEN 1 ELSE Wrap(x * PowerMod(x, n - 1), LONG_BITS)

\* The exponent vectors of the variables left after x_0 is given a value.
EvalVecs(p1) == [1..Depth(p1) -> 0..TopExp(p1)]

\* The coefficient the sum of coefficient * x^exponent over the monomials
\* of p1 has at vec.
SumAtCoeffAt(p1, x, vec) ==
  SumSeq([i \in 1..Len(p1.arr) |->
            CoeffMul(CoeffAt(p1.arr[i].p, vec), PowerMod(x, p1.arr[i].exp))])

\* The coefficient of the exponent-0 term of p1, zero when there is none.
ConstantTerm(p1) ==
  IF PolyIsCoeff(p1) THEN p1
  ELSE IF p1.arr[1].exp = 0 THEN p1.arr[1].p
  ELSE PolyZero

\* PolyAt(p, x) denotes the sum of coefficient * x^exponent.
AtDenotesSum ==
  \A vec \in EvalVecs(p) : CoeffAt(res, vec) = SumAtCoeffAt(p, arg, vec)

\* PowerOf(x, n) is x^n modulo 2^LONG_BITS.
PowerOfIsPower ==
  op = "PowerOf" => res = PolyFromCoeff(PowerMod(arg, deg))

\* C21: PolyAt(p, x) is p for a constant p, else the canonical sum of
\* coefficient * x^exponent over the monomials of p, PowerOf(x, n) being
\* x^n modulo 2^LONG_BITS for every n >= 0; PolyAt(p, 0) is the
\* coefficient of the exponent-0 term of p, zero when there is none.
C21_PolyAt ==
  /\ PowerOfIsPower
  /\ op = "PolyAt" =>
       IF PolyIsCoeff(p) THEN res = p
       ELSE /\ IsCanonical(res)
            /\ AtDenotesSum
            /\ arg = 0 => res = ConstantTerm(p)

\* The same without the canonical form of the result.
C21_SumAndPowerOf ==
  /\ PowerOfIsPower
  /\ op = "PolyAt" =>
       IF PolyIsCoeff(p) THEN res = p
       ELSE /\ AtDenotesSum
            /\ arg = 0 => res = ConstantTerm(p)

\* A power that wraps to 0, and a sum of two terms that is a polynomial.
C21_PowerWraps ==
  op = "PowerOf" /\ arg = 2 /\ deg = INT_MAX /\ res = PolyZero

C21_SumOfTwoTerms ==
  /\ op = "PolyAt" /\ arg = 2 /\ Len(p.arr) = 2 /\ Depth(p) = 2
  /\ IsCanonical(res) /\ ~PolyIsCoeff(res) /\ AtDenotesSum

(* ---------------------------------------------------------------------- *)
(* SpecCompose: PolyCompose                                                *)
(* ---------------------------------------------------------------------- *)

\* x_0 * x_1 * x_2, a polynomial of three variables.
X0X1X2 ==
  PolyFromSizeAndArray(1, << [p |-> PolyFromSizeAndArray(1,
                                      << [p |-> NestedX1, exp |-> 1] >>),
                              exp |-> 1] >>)

\* 1 + x_2: its terms in x_0 and in x_1 are single terms of exponent 0.
OnePlusX2 ==
  PolyFromSizeAndArray(1,
    << [p |-> PolyFromSizeAndArray(1, << [p |-> NestedOnePlusX1, exp |-> 0] >>),
        exp |-> 0] >>)

\* x_0^INT_MAX.
X0ToIntMax ==
  PolyFromSizeAndArray(1, << [p |-> PolyFromCoeff(1), exp |-> INT_MAX] >>)

\* The polynomials composed: none, one, two or three variables.
ComposePolys == MulPolys \cup {X0X1X2, OnePlusX2, X0ToIntMax}

\* The polynomials substituted: constants, x_0, 1 + x_0 and x_0 * x_1.
ComposeArgs ==
  {PolyFromCoeff(0), PolyFromCoeff(2), PolyFromCoeff(LONG_MIN),
   PolyFromSizeAndArray(1, << [p |-> PolyFromCoeff(1), exp |-> 1] >>),
   PolyFromSizeAndArray(2, << [p |-> PolyFromCoeff(1), exp |-> 0],
                              [p |-> PolyFromCoeff(1), exp |-> 1] >>),
   PolyFromSizeAndArray(1, << [p |-> NestedX1, exp |-> 1] >>)}

InitCompose ==
  /\ p \in ComposePolys
  /\ q \in ComposeArgs
  /\ arg = 0
  /\ op = "init"
  /\ res = PolyZero
  /\ res2 = PolyZero
  /\ NormIdle /\ ReadIdle /\ CalcIdle /\ RelIdle

\* The variable x_i as a polynomial: x_0 is (1,1), x_1 is ((1,1),0), ...
RECURSIVE IdentityVar(_)
IdentityVar(i) ==
  IF i = 0
  THEN PolyFromSizeAndArray(1, << [p |-> PolyFromCoeff(1), exp |-> 1] >>)
  ELSE PolyFromSizeAndArray(1, << [p |-> IdentityVar(i - 1), exp |-> 0] >>)

\* PolyCompose(p, l, {x_0, ..., x_(l-1)}) for the l variables of p.
ComposeIdentity ==
  /\ op = "init"
  /\ op' = "PolyComposeIdentity"
  /\ arg' = Depth(p)
  /\ res' = PolyCompose(p, Depth(p), [i \in 1..Depth(p) |-> IdentityVar(i - 1)])
  /\ UNCHANGED <<normVars, p, q, res2, readVars, calcVars, relVars>>

\* PolyCompose(p, 1, {c}) for a constant c, and PolyCompose(PolyAt(p, c), 0, {}).
ComposeConstant ==
  /\ op = "init"
  /\ op' = "PolyComposeConstant"
  /\ arg' \in AtAddArgs
  /\ res' = PolyCompose(p, 1, << PolyFromCoeff(arg') >>)
  /\ res2' = PolyCompose(PolyAt(p, arg'), 0, <<>>)
  /\ UNCHANGED <<normVars, p, q, readVars, calcVars, relVars>>

NextCompose ==
  \/ AlgCompose
  \/ ComposeIdentity
  \/ ComposeConstant

SpecCompose == InitCompose /\ [][NextCompose]_vars

\* C22: PolyCompose(p, l, {x_0, ..., x_(l-1)}) is structurally p for every
\* canonical p of l variables, x_i being the variable x_i to the power 1 at
\* nesting depth i.
C22_ComposeIdentity ==
  op = "PolyComposeIdentity" => (res = p /\ PolyIsEq(res, p))

C22_Witness ==
  /\ op = "PolyComposeIdentity" /\ arg = 2 /\ Len(p.arr) = 2
  /\ p.arr[2].exp = BigExp /\ ~PolyIsCoeff(p.arr[1].p)
  /\ res = p

C22_ThreeVariables ==
  op = "PolyComposeIdentity" /\ arg = 3 /\ p = OnePlusX2 /\ res = p

\* A list of monomials none of which has the coefficient zero, as a
\* canonical polynomial.
CanonicalOf(terms) ==
  IF terms = <<>> THEN PolyZero
  ELSE IF Len(terms) = 1 /\ terms[1].exp = 0 /\ PolyIsCoeff(terms[1].p)
  THEN terms[1].p
  ELSE PolyFromSizeAndArray(Len(terms), terms)

\* p1, a polynomial in x_var_id, x_(var_id+1), ..., with 0 for every x_i,
\* i >= k: the monomials with a positive exponent of such an x_i are gone.
RECURSIVE ZeroFrom(_, _, _)
ZeroFromTerm(m, k, var_id) ==
  [p |-> IF var_id < k \/ m.exp = 0 THEN ZeroFrom(m.p, k, var_id + 1)
         ELSE PolyZero,
   exp |-> m.exp]

IsNonZeroTerm(m) == ~PolyIsZero(m.p)

ZeroFrom(p1, k, var_id) ==
  IF PolyIsCoeff(p1) THEN p1
  ELSE CanonicalOf(SelectSeq([i \in 1..Len(p1.arr) |->
                                ZeroFromTerm(p1.arr[i], k, var_id)],
                             IsNonZeroTerm))

\* C23: PolyCompose(p, k, q) replaces every x_i, i >= k, by zero: it is
\* PolyCompose of p without the monomials that have a positive exponent of
\* such an x_i; PolyCompose(p, 0, q) is the constant p(0, 0, ...), and
\* PolyCompose(p, 1, {c}) is PolyCompose(PolyAt(p, c), 0, q).
C23_ComposeZeroesLaterVariables ==
  /\ op = "PolyCompose" =>
       /\ res = PolyCompose(ZeroFrom(p, arg, 0), arg, SubSeq(<<q, p, q>>, 1, arg))
       /\ arg = 0 => res = PolyFromCoeff(CoeffAt(p, <<>>))
  /\ op = "PolyComposeConstant" => (res = res2 /\ PolyIsCoeff(res))

\* x_1 occurs in p and is replaced by zero, x_0 by a polynomial.
C23_Witness ==
  /\ op = "PolyCompose" /\ arg = 1 /\ Depth(p) = 2 /\ Len(p.arr) = 2
  /\ ~PolyIsCoeff(q) /\ ZeroFrom(p, 1, 0) # p /\ ~PolyIsCoeff(res)
  /\ res = PolyCompose(ZeroFrom(p, arg, 0), arg, SubSeq(<<q, p, q>>, 1, arg))

\* A constant for x_0 whose powers wrap.
C23_ConstantWitness ==
  /\ op = "PolyComposeConstant" /\ arg = LONG_MIN /\ Depth(p) = 2
  /\ res = res2 /\ ~PolyIsZero(res)

(* ---------------------------------------------------------------------- *)
(* The calculator's commands and the stack (Spec)                          *)
(* ---------------------------------------------------------------------- *)

\* What getline returns for a line of the input: the text, with its
\* newline unless the input ends right after the text.
LineOf(text, eof) == IF eof THEN text ELSE text \o <<NEWLINE>>

\* The step is main reading the line text.
ReadLineIs(text) == op' = "CalcReadLine" /\ line' = LineOf(text, feof')

\* The line is reported as a stack underflow and nothing else happens.
UnderflowReported ==
  /\ code' = STACK_UNDERFLOW_CODE
  /\ stack' = stack
  /\ out' = <<>>
  /\ died' = "no"

ComposeLine(k) == COMPOSE_WITH_SPACE_STRING \o NumToText(k)

\* C24: COMPOSE k with a valid k on a stack of fewer than k + 1
\* polynomials, the empty stack included, reports STACK UNDERFLOW, pops
\* nothing and leaves the stack as it was.
C24_ComposeUnderflow ==
  [][\A k \in 0..MaxComposeArgs :
       (ReadLineIs(ComposeLine(k)) /\ StackSize(stack) < k + 1)
         => UnderflowReported]_vars

\* The same on a stack that is not empty.
C24_NonEmptyStack ==
  [][\A k \in 0..MaxComposeArgs :
       (/\ ReadLineIs(ComposeLine(k))
        /\ ~StackIsEmpty(stack)
        /\ StackSize(stack) < k + 1)
         => UnderflowReported]_vars

\* COMPOSE on the empty stack: the process dies in Pop or in CHECK_PTR.
C24_EmptyStackDies ==
  [][\A k \in 0..MaxComposeArgs :
       (ReadLineIs(ComposeLine(k)) /\ StackIsEmpty(stack))
         => died' \in {"SIGSEGV", "exit"}]_vars

\* The commands of one operand and of two, as they are written.
UnaryLines ==
  {IS_COEFF_STRING, IS_ZERO_STRING, CLONE_STRING, NEG_STRING, DEG_STRING,
   PRINT_STRING, POP_STRING}
  \cup {AT_WITH_SPACE_STRING \o NumToText(x) : x \in {0, 2}}
  \cup {DEG_BY_WITH_SPACE_STRING \o NumToText(i) : i \in {0, 1}}

BinaryLines == {ADD_STRING, MUL_STRING, SUB_STRING, IS_EQ_STRING}

\* C25: a command of one operand on the empty stack (IS_COEFF, IS_ZERO,
\* CLONE, NEG, DEG, PRINT, POP, DEG_BY, AT) and a command of two operands
\* on a stack of fewer than two (ADD, MUL, SUB, IS_EQ) report STACK
\* UNDERFLOW and leave the size and the contents of the stack unchanged.
C25_Underflow ==
  [][/\ \A text \in UnaryLines :
          (ReadLineIs(text) /\ StackSize(stack) < 1) => UnderflowReported
     /\ \A text \in BinaryLines :
          (ReadLineIs(text) /\ StackSize(stack) < 2) => UnderflowReported]_vars

\* SUB on a stack of one polynomial, and AT on the empty stack.
C25_Witness ==
  /\ op = "CalcReadLine" /\ line = LineOf(SUB_STRING, feof)
  /\ StackSize(stack) = 1 /\ code = STACK_UNDERFLOW_CODE /\ died = "no"

C25_WitnessAt ==
  /\ op = "CalcReadLine" /\ line = LineOf(AT_WITH_SPACE_STRING \o <<"2">>, feof)
  /\ StackSize(stack) = 0 /\ code = STACK_UNDERFLOW_CODE /\ died = "no"

(* ---------------------------------------------------------------------- *)
(* SpecErr: the calculator on lines with bad parameters and on lines       *)
(* that are no polynomials                                                 *)
(* ---------------------------------------------------------------------- *)

\* The most lines main reads here.
MaxErrLines == 2

\* DEG_BY, AT and COMPOSE without a parameter, with one that is no number
\* or is followed by more text, and with one out of range.
DegByBadLines ==
  {DEG_BY_STRING, DEG_BY_WITH_SPACE_STRING,
   DEG_BY_WITH_SPACE_STRING \o <<"-", "1">>,
   DEG_BY_WITH_SPACE_STRING \o <<" ", "1">>,
   DEG_BY_WITH_SPACE_STRING \o <<"1", "x">>,
   DEG_BY_WITH_SPACE_STRING \o NumToText(ULONG_MAX + 1)}

AtBadLines ==
  {AT_STRING, AT_WITH_SPACE_STRING,
   AT_WITH_SPACE_STRING \o <<"x">>,
   AT_WITH_SPACE_STRING \o <<"-">>,
   AT_WITH_SPACE_STRING \o <<"1", " ">>,
   AT_WITH_SPACE_STRING \o NumToText(LONG_MAX + 1),
   AT_WITH_SPACE_STRING \o NumToText(LONG_MIN - 1)}

ComposeBadLines ==
  {COMPOSE_STRING, COMPOSE_WITH_SPACE_STRING,
   COMPOSE_WITH_SPACE_STRING \o <<"-", "1">>,
   COMPOSE_WITH_SPACE_STRING \o <<"1", "x">>,
   COMPOSE_WITH_SPACE_STRING \o NumToText(ULONG_MAX + 1)}

\* Lines that are no polynomial: cut short, with text left after the
\* polynomial, with a coefficient or an exponent out of range.
BadPolyLines ==
  {<<"(", "1", ",">>, <<"1", " ">>, <<" ", "1">>, <<"-">>,
   <<"(", "1", ",", "1", ")", "x">>, <<"(", "1", ",", "1", ")", "+">>,
   NumToText(LONG_MAX + 1), NumToText(LONG_MIN - 1),
   <<"(", "1", ",", "-", "1", ")">>,
   <<"(", "1", ",">> \o NumToText(INT_MAX + 1) \o <<")">>,
   <<"(", "1", ",">> \o NumToText(2 ^ INT_BITS) \o <<")">>,
   <<"(", "1", ",">> \o NumToText(2 ^ INT_BITS + 1) \o <<")">>}

\* Polynomials as they are written: the ends of both ranges included.
GoodPolyLines ==
  {NumToText(LONG_MIN), NumToText(LONG_MAX), <<"0">>,
   <<"(", "1", ",", "1", ")">>,
   <<"(", "1", ",">> \o NumToText(INT_MAX) \o <<")">>,
   <<"(", "1", ",", "0", ")", "+", "(", "2", ",", "1", ")">>,
   <<"(", "(", "1", ",", "1", ")", ",", "1", ")">>}

\* Comments and the empty line.
SkippedLines == {<<COMMENT_CHAR, "1">>, <<COMMENT_CHAR, "A", "D", "D">>, <<>>}

ErrLines ==
  DegByBadLines \cup AtBadLines \cup ComposeBadLines \cup BadPolyLines
    \cup GoodPolyLines \cup SkippedLines
    \cup {ZERO_STRING, DEG_BY_WITH_SPACE_STRING \o <<"0">>,
          AT_WITH_SPACE_STRING \o <<"2">>, COMPOSE_WITH_SPACE_STRING \o <<"0">>}

MainReadErrLine == MainReadLineFrom(ErrLines, MaxErrLines)

NextErr ==
  \/ MainReadErrLine
  \/ MainExit

SpecErr == Init /\ [][NextErr]_vars

\* The line is reported with the code and nothing else happens.
ErrorReported(c) ==
  /\ code' = c
  /\ stack' = stack
  /\ out' = <<>>
  /\ died' = "no"

\* C26: DEG_BY, AT and COMPOSE with a missing, malformed or out-of-range
\* parameter report DEG BY WRONG VARIABLE, AT WRONG VALUE and COMPOSE WRONG
\* PARAMETER, never STACK UNDERFLOW, whatever the stack holds, and leave
\* the stack unchanged.
C26_ParameterBeforeStack ==
  [][/\ \A text \in DegByBadLines :
          ReadLineIs(text) => ErrorReported(DEG_BY_WRONG_VAR_CODE)
     /\ \A text \in AtBadLines :
          ReadLineIs(text) => ErrorReported(AT_WRONG_VAL_CODE)
     /\ \A text \in ComposeBadLines :
          ReadLineIs(text) => ErrorReported(COMPOSE_WRONG_PARAM_CODE)]_vars

\* The same, but for the bare command name right at the end of the input,
\* which is reported as WRONG COMMAND.
C26_ExceptCutCommand ==
  [][/\ \A text \in DegByBadLines :
          ReadLineIs(text) =>
            ErrorReported(IF text = DEG_BY_STRING /\ feof'
                          THEN WRONG_COMMAND_CODE ELSE DEG_BY_WRONG_VAR_CODE)
     /\ \A text \in AtBadLines :
          ReadLineIs(text) =>
            ErrorReported(IF text = AT_STRING /\ feof'
                          THEN WRONG_COMMAND_CODE ELSE AT_WRONG_VAL_CODE)
     /\ \A text \in ComposeBadLines :
          ReadLineIs(text) =>
            ErrorReported(IF text = COMPOSE_STRING /\ feof'
                          THEN WRONG_COMMAND_CODE
                          ELSE COMPOSE_WRONG_PARAM_CODE)]_vars

\* An out-of-range parameter on the empty stack is reported as such.
C26_OutOfRangeOnEmptyStack ==
  /\ op = "CalcReadLine" /\ StackIsEmpty(stack)
  /\ line = LineOf(COMPOSE_WITH_SPACE_STRING \o NumToText(ULONG_MAX + 1), feof)
  /\ code = COMPOSE_WRONG_PARAM_CODE

(* ---------------------------------------------------------------------- *)
(* The effect of the commands on the stack (Spec)                          *)
(* ---------------------------------------------------------------------- *)

\* The commands that only print.
QueryLines ==
  {IS_COEFF_STRING, IS_ZERO_STRING, DEG_STRING, PRINT_STRING, IS_EQ_STRING}
  \cup {DEG_BY_WITH_SPACE_STRING \o NumToText(i) : i \in {0, 1}}

\* The stack holds the same polynomials in the same order.
SameContents ==
  /\ StackSize(stack') = StackSize(stack)
  /\ stack'.elements = stack.elements

\* C27: IS_COEFF, IS_ZERO, DEG, PRINT, DEG_BY and IS_EQ leave the stack as
\* it was: the same size, the same polynomials in the same order (IS_EQ
\* pushes the two it popped back in their order).
C27_QueriesKeepStack ==
  [][\A text \in QueryLines :
       ReadLineIs(text) => (SameContents /\ died' = "no")]_vars

\* IS_EQ has answered for two different polynomials, still in their order.
C27_Witness ==
  /\ op = "CalcReadLine" /\ line = LineOf(IS_EQ_STRING, feof)
  /\ StackSize(stack) = 3 /\ out = PrintFalse /\ code = NO_ERROR_CODE
  /\ stack.elements[2] = PolyFromCoeff(1)
  /\ ~PolyIsCoeff(stack.elements[3])

\* The polynomial on top, the one beneath it, and the ones under the
\* i topmost.
Top(s) == s.elements[s.size]
Beneath(s) == s.elements[s.size - 1]
Under(s, i) == SubSeq(s.elements, 1, s.size - i)

\* The stack after the step holds exactly the polynomials list.
Holds(list) == stack'.elements = list /\ StackSize(stack') = Len(list)

\* The effect of each command that changes the stack, when the stack holds
\* its operands.
StackEffects ==
  /\ (ReadLineIs(ADD_STRING) /\ StackSize(stack) >= 2) =>
       Holds(Append(Under(stack, 2), PolyAdd(Top(stack), Beneath(stack))))
  /\ (ReadLineIs(MUL_STRING) /\ StackSize(stack) >= 2) =>
       Holds(Append(Under(stack, 2), PolyMul(Top(stack), Beneath(stack))))
  /\ (ReadLineIs(SUB_STRING) /\ StackSize(stack) >= 2) =>
       Holds(Append(Under(stack, 2), PolySub(Top(stack), Beneath(stack))))
  /\ ReadLineIs(ZERO_STRING) => Holds(Append(stack.elements, PolyZero))
  /\ (ReadLineIs(CLONE_STRING) /\ StackSize(stack) >= 1) =>
       Holds(Append(stack.elements, Top(stack)))
  /\ (ReadLineIs(POP_STRING) /\ StackSize(stack) >= 1) =>
       Holds(Under(stack, 1))
  /\ (ReadLineIs(NEG_STRING) /\ StackSize(stack) >= 1) =>
       Holds(Append(Under(stack, 1), PolyNeg(Top(stack))))
  /\ \A x \in {0, 2} :
       (/\ ReadLineIs(AT_WITH_SPACE_STRING \o NumToText(x))
        /\ StackSize(stack) >= 1) =>
         Holds(Append(Under(stack, 1), PolyAt(Top(stack), x)))

\* C28: with a on top and b beneath, ADD, MUL and SUB replace the two by
\* a + b, a * b and a - b; ZERO and CLONE push one polynomial, POP removes
\* one, NEG and AT replace the top; every deeper polynomial stays.
C28_StackEffects == [][StackEffects]_vars

\* The same for the steps the process does not die in.
C28_UnlessAborted == [][died' = "no" => StackEffects]_vars

\* SUB has taken x_0 from 2 with 1 beneath them: a - b, not b - a.
C28_SubOrder ==
  /\ op = "CalcReadLine" /\ line = LineOf(SUB_STRING, feof)
  /\ code = NO_ERROR_CODE /\ died = "no" /\ StackSize(stack) = 2
  /\ stack.elements[1] = PolyFromCoeff(1)
  /\ stack.elements[2] =
       PolySub(PolyFromCoeff(2),
               PolyFromSizeAndArray(1, << [p |-> PolyFromCoeff(1), exp |-> 1] >>))

(* ---------------------------------------------------------------------- *)
(* Lines that are polynomials, or are not (SpecErr)                        *)
(* ---------------------------------------------------------------------- *)

\* The step pushes exactly one polynomial and reports nothing.
OnePushed ==
  /\ code' = NO_ERROR_CODE
  /\ out' = <<>>
  /\ died' = "no"
  /\ StackSize(stack') = StackSize(stack) + 1
  /\ Under(stack', 1) = stack.elements

\* What the lines do: an error report, one push, nothing.
PolyLineEffects(bad) ==
  /\ \A text \in bad : ReadLineIs(text) => ErrorReported(WRONG_POLY_CODE)
  /\ \A text \in GoodPolyLines : ReadLineIs(text) => OnePushed
  /\ \A text \in SkippedLines : ReadLineIs(text) => ErrorReported(NO_ERROR_CODE)
  /\ op' = "CalcReadLine" => line_number' = line_number + 1

\* C29: a line that is no polynomial (bad syntax, a coefficient or an
\* exponent out of range, text after the polynomial) is reported as WRONG
\* POLY with its number and leaves the stack unchanged; a line that is a
\* polynomial pushes exactly one; a comment and an empty line change and
\* report nothing.
C29_PolyLines == [][PolyLineEffects(BadPolyLines)]_vars

\* The exponent literals that the narrowing to int brings into range.
WrappedExpLines ==
  {<<"(", "1", ",">> \o NumToText(2 ^ INT_BITS + e) \o <<")">> : e \in {0, 1}}

\* The same without those lines.
C29_ExceptWrappedExponents ==
  [][PolyLineEffects(BadPolyLines \ WrappedExpLines)]_vars

\* A line with text after the polynomial was reported, the stack holding
\* a polynomial pushed before.
C29_TrailingTextReported ==
  /\ op = "CalcReadLine" /\ line = LineOf(<<"(", "1", ",", "1", ")", "x">>, feof)
  /\ code = WRONG_POLY_CODE /\ StackSize(stack) = 1 /\ line_number = 2

(* ---------------------------------------------------------------------- *)
(* SpecStack: Push, Pop and Empty in any order                             *)
(* ---------------------------------------------------------------------- *)

\* The most polynomials on the stack: the array grows to 1, 3 and 7.
MaxStackSize == 5

\* The polynomials pushed: 1, 2 and x_0.
StackPolys ==
  {PolyFromCoeff(1), PolyFromCoeff(2),
   PolyFromSizeAndArray(1, << [p |-> PolyFromCoeff(1), exp |-> 1] >>)}

\* Push of a polynomial.
StackPush ==
  /\ StackSize(stack) < MaxStackSize
  /\ \E poly_to_push \in StackPolys :
       /\ stack' = Push(stack, poly_to_push)
       /\ pushed' = Append(pushed, poly_to_push)
  /\ op' = "Push"
  /\ UNCHANGED <<normVars, algVars, res, res2, readVars, line_number, code,
                 out, died, third, deg, eq>>

\* Pop on a stack that is not empty: res is the polynomial it returns,
\* third the one pushed last of those not yet popped.
StackPop ==
  /\ ~StackIsEmpty(stack)
  /\ stack' = Pop(stack).s
  /\ res' = Pop(stack).poly
  /\ third' = pushed[Len(pushed)]
  /\ pushed' = SubSeq(pushed, 1, Len(pushed) - 1)
  /\ op' = "Pop"
  /\ UNCHANGED <<normVars, algVars, res2, readVars, line_number, code, out,
                 died, deg, eq>>

\* Empty, on any stack.
StackEmpty ==
  /\ op # "Empty"
  /\ stack' = Empty(stack)
  /\ pushed' = <<>>
  /\ op' = "Empty"
  /\ UNCHANGED <<normVars, algVars, res, res2, readVars, line_number, code,
                 out, died, third, deg, eq>>

NextStack ==
  \/ StackPush
  \/ StackPop
  \/ StackEmpty

SpecStack == Init /\ [][NextStack]_vars

\* C30: the stack is LIFO: Pop returns the polynomial pushed last of those
\* not yet popped, growing and shrinking the array loses and reorders
\* nothing, size <= reserved in every state, and after Empty the size and
\* reserved are 0.
C30_StackIsLifo ==
  /\ stack.size <= stack.reserved
  /\ stack.size = Len(pushed)
  /\ stack.elements = pushed
  /\ op = "Pop" => res = third
  /\ op = "Empty" => (stack.size = 0 /\ stack.reserved = 0)

\* A Pop that shrank the array from 7 to 1 around the one polynomial
\* left, after one that returned another polynomial.
C30_Witness ==
  /\ op = "Pop" /\ stack.size = 1 /\ stack.reserved = 1
  /\ res = third /\ res # stack.elements[1]
  /\ stack.elements = pushed

\* Empty, after a Pop that returned a polynomial.
C30_EmptiedWitness ==
  /\ op = "Empty" /\ stack = StackInit /\ res # PolyZero

====
